---- MODULE Spec2Model ----
(***************************************************************************)
(* Verification model of the kodegend daemon core:                         *)
(*   - the embedded-server fleet manager (service/kodegen_http.rs):        *)
(*     start / rollback_spawned / stop / shutdown_server_graceful /        *)
(*     monitor_server_process, together with the child processes and the   *)
(*     ports they bind;                                                     *)
(*   - the supervisor loop (manager.rs);                                    *)
(*   - the progress-channel send disciplines (install/.../context.rs,      *)
(*     install/download/core.rs).                                           *)
(***************************************************************************)
EXTENDS Integers, Sequences, FiniteSets, TLC

(***************************************************************************)
(* Bounds of the model.                                                    *)
(***************************************************************************)
\* number of fleet members declared in the configuration
NumServers == 2
\* number of child processes the OS lets the fleet manager spawn in one run
MaxChildren == 2
\* graceful phase of the shutdown choreography, in 100ms poll sleeps
\* (30s in the source, scaled)
GracefulPolls == 1
\* forced phase of the shutdown choreography, in 100ms poll sleeps
\* (5s in the source, scaled)
KillPolls == 1

\* number of worker agents the supervisor spawned
NumWorkers == 1
\* capacity of the supervisor's event bus (BUS_BOUND = 128 in the source,
\* scaled)
BusBound == 3
\* commands a worker's inbox holds in the model
InboxBound == 1
\* log-rotate ticks (one an hour) in one run
MaxLogRotations == 1
\* the Fatal restart delay in 100ms restart ticks (1000ms in the source,
\* scaled)
FatalDelay == 2
\* capacity of the install progress channel (100 in the source, scaled)
ProgressCap == 2
\* calls of download_binary in one run
MaxDownloads == 2
MaxCrashes == 3
MaxEvents == 4
NumEmbedded == 3

\* the Health restart delay in 100ms restart ticks (100ms)
HealthDelay == 1
\* the signals the handler is installed for
SIGINT == 2
SIGTERM == 15

Members == 1..NumServers
Workers == 1..NumWorkers
Children == 1..MaxChildren
\* member i is configured with its own port i or with port 1
Ports == Members

VARIABLES
    \* ---- KodegenHttpService ----
    servers,          \* Vec<CategoryServer>: per member record
    pc,               \* position of the current start()/stop() call
    op,               \* the call in progress or last returned
    idx,              \* start(): loop index
    spawned_indices,  \* start(): members that passed both health layers
    rb,               \* rollback_spawned(): position in the reversed list
    rbChild,          \* rollback_spawned(): child whose cell lock is held
    err,              \* start(): error to return once rollback is done
    result,           \* result of the last returned call
    shutdown_tasks,   \* stop(): spawned shutdown tasks, in order
    errors,           \* stop(): members whose shutdown failed
    \* ---- operating system / tokio runtime ----
    children,         \* every child process spawned so far
    monitor,          \* per child: its monitor_server_process task
    sd,               \* per child: the shutdown choreography run on it
    extBound,         \* ports bound by foreign processes
    \* ---- history ----
    answered,         \* members that answered 2xx on /health in this start()
    \* ---- ServiceManager ----
    lifecycle,        \* the manager's own Lifecycle state
    mpc,              \* position of the supervisor (see below)
    cur,              \* handle_event: the Fatal service; restarts: to_restart
    bus,              \* the event bus (bus_tx / bus_rx)
    inbox,            \* per worker: its command inbox
    worker,           \* per worker: the agent and its child
    pending_restarts, \* per worker: RestartState, attempts = 0 when absent
    RECEIVED_SIGNAL,  \* the signal register
    embedded_servers, \* Option<Vec<EmbeddedServer>>
    run_result,       \* what the daemon's run returned
    rotations,        \* log-rotate ticks seen so far
    crashes,          \* history: per worker, unexpected exits handled so far
    \* ---- install progress channel ----
    ipc,              \* position of the install run (see below)
    progress_tx,      \* InstallContext.progress_tx: "None" or "Some"
    progress_disabled,\* InstallContext.progress_disabled
    dl_disabled,      \* download_binary's own progress_disabled flag
    downloads,        \* download_binary calls made so far
    chan,             \* the queue of the mpsc channel
    rx_open,          \* the receiver has not been dropped
    warnings,         \* closure warnings logged so far
    last,             \* history: the last send and the channel it met
    \* ---- one entity's Lifecycle fed with events ----
    trail,            \* the states the entity has been in, oldest first
    fed,              \* the events fed to step, oldest first
    \* ---- embedded servers (service/embedded_servers.rs) ----
    emb_cfg,          \* per configured server: enabled?
    emb_pc,           \* position of start_all_servers / shutdown_all_servers
    emb_i,            \* start_all_servers: the config being looked at
    emb_servers,      \* the Vec<EmbeddedServer>, in start order
    emb_todo,         \* rollback / shutdown loop: servers not yet visited
    emb_cur,          \* the server whose shutdown is being awaited, or 0
    emb_errors,       \* shutdown_all_servers: servers whose shutdown failed
    emb_result,       \* result of the last returned call
    emb_started,      \* history: servers started by start_all_servers, in order
    emb_log           \* history: shutdowns begun and finished, in order

fleetVars == <<servers, pc, op, idx, spawned_indices, rb, rbChild, err, result,
               shutdown_tasks, errors, children, monitor, sd, extBound,
               answered>>

supVars == <<lifecycle, mpc, cur, bus, inbox, worker, pending_restarts,
             RECEIVED_SIGNAL, embedded_servers, run_result, rotations,
             crashes>>

progressVars == <<ipc, progress_tx, progress_disabled, dl_disabled, downloads, chan,
                  rx_open, warnings, last>>

stepVars == <<trail, fed>>

embVars == <<emb_cfg, emb_pc, emb_i, emb_servers, emb_todo, emb_cur,
             emb_errors, emb_result, emb_started, emb_log>>

vars == <<fleetVars, supVars, progressVars, stepVars, embVars>>

(***************************************************************************)
(* Records.                                                                *)
(*   children[c].st: "none" not spawned, "live" running, "exited"          *)
(*   terminated and not yet waited on (a zombie), "reaped" a try_wait has  *)
(*   returned its exit status.  term / kill count the signals the          *)
(*   choreography has sent to the child.                                   *)
(***************************************************************************)
NoChild == [member |-> 0, st |-> "none", bound |-> FALSE, term |-> 0, kill |-> 0]
NoShutdown == [pc |-> "none", waited |-> 0, kwaited |-> 0, polls |-> 0,
               res |-> "none"]

\* KodegenHttpService::new: one CategoryServer per config entry
NewServer(cfg) ==
    [enabled |-> cfg.enabled, port |-> cfg.port, process |-> 0,
     stdout_task |-> 0, stderr_task |-> 0, monitor_handle |-> 0,
     state |-> "Stopped"]

\* the configurations the model starts from
ConfigsOf(i) == [enabled : BOOLEAN, port : {1, i}]

(***************************************************************************)
(* Ports.                                                                  *)
(***************************************************************************)
\* a live child of member m listens on m's port once it has bound it
Listening(p) ==
    {c \in Children : /\ children[c].st = "live"
                      /\ children[c].bound
                      /\ servers[children[c].member].port = p}

\* check_port_available: bind 127.0.0.1:port, then drop the listener
check_port_available(p) == p \notin extBound /\ Listening(p) = {}

\* a variant that stops checking after the first port found free
PreflightFirstFree ==
    \E i \in Members : servers[i].enabled /\ check_port_available(servers[i].port)

\* the pre-flight loop of start(): every enabled member's port, one by one
PreflightOk ==
    \A i \in Members : servers[i].enabled => check_port_available(servers[i].port)

\* `for idx in 0..len` with `continue` on disabled members
NextEnabled(i) ==
    IF \E j \in Members : j >= i /\ servers[j].enabled
    THEN CHOOSE j \in Members : /\ j >= i /\ servers[j].enabled
                                /\ \A k \in Members : (k >= i /\ servers[k].enabled) => j <= k
    ELSE NumServers + 1

Spawned == {c \in Children : children[c].st # "none"}
NextChild == Cardinality(Spawned) + 1

\* KodegenHttpService::new has returned; nothing is running
FleetNew ==
    /\ pc = "idle"
    /\ op = "none"
    /\ idx = 0
    /\ spawned_indices = <<>>
    /\ rb = 0
    /\ rbChild = 0
    /\ err = "none"
    /\ result = "none"
    /\ shutdown_tasks = <<>>
    /\ errors = {}
    /\ children = [c \in Children |-> NoChild]
    /\ monitor = [c \in Children |-> "none"]
    /\ sd = [c \in Children |-> NoShutdown]
    /\ answered = {}

FleetInit ==
    /\ servers \in {[i \in Members |-> NewServer(f[i])] :
                        f \in {g \in [Members -> UNION {ConfigsOf(i) : i \in Members}] :
                                  \A i \in Members : g[i] \in ConfigsOf(i)}}
    /\ extBound \in {{}, {1}}
    /\ FleetNew

\* a fleet manager with no enabled member, never started
FleetIdle ==
    /\ servers = [i \in Members |-> NewServer([enabled |-> FALSE, port |-> i])]
    /\ extBound = {}
    /\ FleetNew

(***************************************************************************)
(* Child processes as the tokio Child handle sees them.                    *)
(***************************************************************************)
\* Child::id(): None once the child has been polled to completion
HasPid(ch) == ch.st # "reaped"

\* Child::try_wait(): Ok(Some(status)) with a success or a failure status,
\* or Ok(None)
Exited == {"exit0", "exit1"}
TryWait(ch) ==
    IF ch.st \in {"exited", "reaped"} THEN Exited ELSE {"running"}

(***************************************************************************)
(* shutdown_server_graceful (unix build).  Each operator maps the child    *)
(* and the call's own state to their values after the step.                *)
(***************************************************************************)
\* entry: pid check, then Phase 1 (SIGTERM)
ShutdownEnter(ch) ==
    IF ~HasPid(ch)
    THEN <<ch, [NoShutdown EXCEPT !.pc = "done", !.res = "Ok"]>>
    ELSE <<[ch EXCEPT !.term = @ + 1], [NoShutdown EXCEPT !.pc = "graceful"]>>

\* a variant that escalates without waiting out the graceful deadline
GracefulPollEarlyKill(ch, s, o) ==
    IF o \in Exited
    THEN <<[ch EXCEPT !.st = "reaped"],
           [s EXCEPT !.pc = "done", !.res = "Ok", !.polls = @ + 1]>>
    ELSE <<[ch EXCEPT !.kill = @ + 1], [s EXCEPT !.pc = "forced", !.polls = @ + 1]>>

\* Phase 2: one iteration of the graceful poll loop (try_wait, deadline
\* check, sleep); on deadline Phase 3 (start_kill) follows without a
\* suspension point
GracefulPoll(ch, s, o) ==
    CASE o \in Exited ->
            <<[ch EXCEPT !.st = "reaped"],
              [s EXCEPT !.pc = "done", !.res = "Ok", !.polls = @ + 1]>>
      [] o = "error" ->
            <<ch, [s EXCEPT !.pc = "done", !.res = "Err", !.polls = @ + 1]>>
      [] OTHER ->
            IF s.waited >= GracefulPolls
            THEN <<[ch EXCEPT !.kill = @ + 1],
                   [s EXCEPT !.pc = "forced", !.polls = @ + 1]>>
            ELSE <<ch, [s EXCEPT !.waited = @ + 1, !.polls = @ + 1]>>

\* a variant that reports success when the SIGKILL deadline passes
ForcedPollTimeoutOk(ch, s, o) ==
    IF o \in Exited
    THEN <<[ch EXCEPT !.st = "reaped"],
           [s EXCEPT !.pc = "done", !.res = "Ok", !.polls = @ + 1]>>
    ELSE IF s.kwaited >= KillPolls
         THEN <<ch, [s EXCEPT !.pc = "done", !.res = "Ok", !.polls = @ + 1]>>
         ELSE <<ch, [s EXCEPT !.kwaited = @ + 1, !.polls = @ + 1]>>

\* a variant whose SIGKILL poll loop has no deadline
ForcedPollNoDeadline(ch, s, o) ==
    IF o \in Exited
    THEN <<[ch EXCEPT !.st = "reaped"],
           [s EXCEPT !.pc = "done", !.res = "Ok", !.polls = @ + 1]>>
    ELSE <<ch, [s EXCEPT !.kwaited = @ + 1, !.polls = @ + 1]>>

\* Phase 4: one iteration of the SIGKILL poll loop
ForcedPoll(ch, s, o) ==
    CASE o \in Exited ->
            <<[ch EXCEPT !.st = "reaped"],
              [s EXCEPT !.pc = "done", !.res = "Ok", !.polls = @ + 1]>>
      [] o = "error" ->
            <<ch, [s EXCEPT !.pc = "done", !.res = "Err", !.polls = @ + 1]>>
      [] OTHER ->
            IF s.kwaited >= KillPolls
            THEN <<ch, [s EXCEPT !.pc = "done", !.res = "Err", !.polls = @ + 1]>>
            ELSE <<ch, [s EXCEPT !.kwaited = @ + 1, !.polls = @ + 1]>>

\* the call is made: inline in rollback_spawned, as the task body in stop()
ShutdownStart(c) ==
    /\ sd[c].pc = "called"
    /\ LET r == ShutdownEnter(children[c])
       IN  /\ children' = [children EXCEPT ![c] = r[1]]
           /\ sd' = [sd EXCEPT ![c] = r[2]]
    /\ UNCHANGED <<servers, pc, op, idx, spawned_indices, rb, rbChild, err,
                   result, shutdown_tasks, errors, monitor, extBound, answered>>
    /\ UNCHANGED <<supVars, progressVars, stepVars, embVars>>

ShutdownPoll(c) ==
    /\ sd[c].pc \in {"graceful", "forced"}
    /\ \E o \in TryWait(children[c]) :
         LET r == IF sd[c].pc = "graceful"
                  THEN GracefulPoll(children[c], sd[c], o)
                  ELSE ForcedPoll(children[c], sd[c], o)
         IN  /\ children' = [children EXCEPT ![c] = r[1]]
             /\ sd' = [sd EXCEPT ![c] = r[2]]
    /\ UNCHANGED <<servers, pc, op, idx, spawned_indices, rb, rbChild, err,
                   result, shutdown_tasks, errors, monitor, extBound, answered>>
    /\ UNCHANGED <<supVars, progressVars, stepVars, embVars>>

(***************************************************************************)
(* The environment: a child exits on its own or because of a signal, and   *)
(* a live child binds its member's port when the port is free.             *)
(***************************************************************************)
ChildExit(c) ==
    /\ children[c].st = "live"
    /\ children' = [children EXCEPT ![c].st = "exited", ![c].bound = FALSE]
    /\ UNCHANGED <<servers, pc, op, idx, spawned_indices, rb, rbChild, err,
                   result, shutdown_tasks, errors, monitor, sd, extBound,
                   answered>>
    /\ UNCHANGED <<supVars, progressVars, stepVars, embVars>>

ChildBind(c) ==
    /\ children[c].st = "live"
    /\ ~children[c].bound
    /\ check_port_available(servers[children[c].member].port)
    /\ children' = [children EXCEPT ![c].bound = TRUE]
    /\ UNCHANGED <<servers, pc, op, idx, spawned_indices, rb, rbChild, err,
                   result, shutdown_tasks, errors, monitor, sd, extBound,
                   answered>>
    /\ UNCHANGED <<supVars, progressVars, stepVars, embVars>>

(***************************************************************************)
(* start()                                                                 *)
(***************************************************************************)
\* Arc<Mutex<Option<Child>>> of child c: strong references are the member's
\* process field and, during a rollback, the local process_arc whose guard
\* is held across the whole choreography
\* a weak reference that upgrades whatever the shutdown path has done
ArcNeverDropped(c) == TRUE

LockHeld(c) == pc = "rb_wait" /\ rbChild = c
ArcAlive(c) == LockHeld(c) \/ \E i \in Members : servers[i].process = c

\* JoinHandle::abort on the monitor task behind handle h (0: no handle)
AbortMonitor(mon, h) ==
    IF h # 0 /\ mon[h] \in {"initial", "polling"}
    THEN [mon EXCEPT ![h] = "finished"] ELSE mon

\* the take() of the monitor and log-forwarding handles in rollback_spawned
\* and in stop() Phase 3
ClearHandles(srv) ==
    [srv EXCEPT !.monitor_handle = 0, !.stdout_task = 0, !.stderr_task = 0]

\* cmd.spawn(): the OS creates the child or refuses
SpawnOutcomes == IF NextChild <= MaxChildren THEN {TRUE, FALSE} ELSE {FALSE}

\* the fields of member idx that start() writes after a successful spawn
AfterSpawn(srv, c) ==
    [srv EXCEPT !.stdout_task = c, !.stderr_task = c, !.state = "Starting",
                !.process = c, !.monitor_handle = c]

\* what start() does when cmd.spawn() fails: `?` on the mapped error
SpawnFailed ==
    /\ pc' = "idle"
    /\ result' = "ErrSpawn"
    /\ UNCHANGED <<servers, children, monitor, rb, rbChild, err, sd>>

\* rollback_spawned is entered with the pending error e; with nothing to
\* roll back it returns at once and start() returns e
BeginRollback(e) ==
    /\ err' = e
    /\ rb' = Len(spawned_indices)
    /\ IF Len(spawned_indices) = 0
       THEN pc' = "idle" /\ result' = e
       ELSE pc' = "rollback" /\ result' = result

StartCall ==
    /\ pc = "idle"
    /\ pc' = "preflight"
    /\ op' = "start"
    /\ result' = "none"
    /\ spawned_indices' = <<>>
    /\ answered' = {}
    /\ idx' = 0
    /\ err' = "none"
    /\ UNCHANGED <<servers, rb, rbChild, shutdown_tasks, errors, children,
                   monitor, sd, extBound>>
    /\ UNCHANGED <<supVars, progressVars, stepVars, embVars>>

\* pre-flight port availability checks, then the first loop iteration
Preflight ==
    /\ pc = "preflight"
    /\ IF ~PreflightOk
       THEN /\ pc' = "idle"
            /\ result' = "ErrPort"
            /\ idx' = idx
       ELSE /\ idx' = NextEnabled(1)
            /\ IF idx' > NumServers
               THEN pc' = "idle" /\ result' = "Ok"
               ELSE pc' = "spawn" /\ result' = result
    /\ UNCHANGED <<servers, op, spawned_indices, rb, rbChild, err,
                   shutdown_tasks, errors, children, monitor, sd, extBound,
                   answered>>
    /\ UNCHANGED <<supVars, progressVars, stepVars, embVars>>

SpawnMember ==
    /\ pc = "spawn"
    /\ \E created \in SpawnOutcomes :
         IF ~created
         THEN SpawnFailed
         ELSE LET c == NextChild IN
              /\ children' = [children EXCEPT ![c] =
                                [NoChild EXCEPT !.member = idx, !.st = "live"]]
              /\ monitor' = [monitor EXCEPT ![c] = "initial"]
              /\ servers' = [servers EXCEPT ![idx] = AfterSpawn(@, c)]
              /\ pc' = "wait"
              /\ UNCHANGED <<result, rb, rbChild, err, sd>>
    /\ UNCHANGED <<op, idx, spawned_indices, shutdown_tasks, errors, extBound,
                   answered>>
    /\ UNCHANGED <<supVars, progressVars, stepVars, embVars>>

\* the 5s wait on the watch channel: the monitor of the child just spawned
\* publishes within 100ms, so the deadline passes with the state still
\* Starting only when that monitor is no longer about to publish
WaitOutcome(srv) ==
    CASE srv.state = "Running" -> "Running"
      [] srv.state = "Failed" -> "ErrCrashed"
      [] srv.state = "Starting" /\ monitor[srv.monitor_handle] = "initial" -> "pending"
      [] OTHER -> "ErrTimeout"

WaitState ==
    /\ pc = "wait"
    /\ LET w == WaitOutcome(servers[idx]) IN
       /\ w # "pending"
       /\ IF w = "Running"
          THEN pc' = "health" /\ UNCHANGED <<err, rb, result>>
          ELSE BeginRollback(w)
    /\ UNCHANGED <<servers, op, idx, spawned_indices, rbChild, shutdown_tasks,
                   errors, children, monitor, sd, extBound, answered>>
    /\ UNCHANGED <<supVars, progressVars, stepVars, embVars>>

\* verify_server_health: some process answers 2xx on the member's port
\* within the deadline, or none does
verify_server_health(p) == Listening(p) # {}

HealthCheck ==
    /\ pc = "health"
    /\ IF verify_server_health(servers[idx].port)
       THEN /\ spawned_indices' = Append(spawned_indices, idx)
            /\ answered' = answered \cup {idx}
            /\ idx' = NextEnabled(idx + 1)
            /\ IF idx' > NumServers
               THEN pc' = "idle" /\ result' = "Ok"
               ELSE pc' = "spawn" /\ result' = result
            /\ UNCHANGED <<servers, monitor, err, rb>>
       ELSE /\ monitor' = AbortMonitor(monitor, servers[idx].monitor_handle)
            /\ servers' = [servers EXCEPT ![idx].monitor_handle = 0]
            /\ BeginRollback("ErrHealth")
            /\ UNCHANGED <<spawned_indices, answered, idx>>
    /\ UNCHANGED <<op, rbChild, shutdown_tasks, errors, children, sd, extBound>>
    /\ UNCHANGED <<supVars, progressVars, stepVars, embVars>>

(***************************************************************************)
(* rollback_spawned: one loop iteration is RollbackTake, the choreography  *)
(* polls, then RollbackFinish.                                             *)
(***************************************************************************)
\* the order in which rollback_spawned visits spawned_indices (.iter().rev())
RollbackMember(k) == spawned_indices[k]

\* end of one loop iteration: abort the member's tasks, move on or return
RollbackAdvance(r) ==
    /\ monitor' = AbortMonitor(monitor, servers[r].monitor_handle)
    /\ servers' = [servers EXCEPT ![r] = ClearHandles([@ EXCEPT !.process = 0])]
    /\ rb' = rb - 1
    /\ rbChild' = 0
    /\ IF rb - 1 = 0
       THEN pc' = "idle" /\ result' = err
       ELSE pc' = "rollback" /\ result' = result

RollbackTake ==
    /\ pc = "rollback"
    /\ LET r == RollbackMember(rb)
           c == servers[r].process
       IN  IF c # 0
           THEN LET e == ShutdownEnter(children[c]) IN
                /\ servers' = [servers EXCEPT ![r].process = 0]
                /\ children' = [children EXCEPT ![c] = e[1]]
                /\ sd' = [sd EXCEPT ![c] = e[2]]
                /\ rbChild' = c
                /\ pc' = "rb_wait"
                /\ UNCHANGED <<monitor, rb, result>>
           ELSE /\ RollbackAdvance(r)
                /\ UNCHANGED <<children, sd>>
    /\ UNCHANGED <<op, idx, spawned_indices, err, shutdown_tasks, errors,
                   extBound, answered>>
    /\ UNCHANGED <<supVars, progressVars, stepVars, embVars>>

RollbackFinish ==
    /\ pc = "rb_wait"
    /\ sd[rbChild].pc = "done"
    /\ RollbackAdvance(RollbackMember(rb))
    /\ UNCHANGED <<op, idx, spawned_indices, err, shutdown_tasks, errors,
                   children, sd, extBound, answered>>
    /\ UNCHANGED <<supVars, progressVars, stepVars, embVars>>

(***************************************************************************)
(* stop()                                                                  *)
(***************************************************************************)
\* the children in the process cells, in Vec order
RECURSIVE LiveCells(_)
LiveCells(i) ==
    IF i > NumServers THEN <<>>
    ELSE IF servers[i].process # 0
         THEN <<servers[i].process>> \o LiveCells(i + 1)
         ELSE LiveCells(i + 1)

\* Phase 1: take every process cell, take the child out of it and spawn
\* one shutdown task per child
StopCall ==
    /\ pc = "idle"
    /\ op' = "stop"
    /\ result' = "none"
    /\ pc' = "stop_wait"
    /\ errors' = {}
    /\ shutdown_tasks' = LiveCells(1)
    /\ servers' = [i \in Members |-> [servers[i] EXCEPT !.process = 0]]
    /\ sd' = [c \in Children |->
                IF \E i \in Members : servers[i].process = c
                THEN [NoShutdown EXCEPT !.pc = "called"] ELSE sd[c]]
    /\ idx' = 0
    /\ spawned_indices' = <<>>
    /\ err' = "none"
    /\ answered' = {}
    /\ UNCHANGED <<rb, rbChild, children, monitor, extBound>>
    /\ UNCHANGED <<supVars, progressVars, stepVars, embVars>>

\* Phase 2: await the tasks in the order they were spawned
StopAwait ==
    /\ pc = "stop_wait"
    /\ shutdown_tasks # <<>>
    /\ LET c == Head(shutdown_tasks) IN
       /\ sd[c].pc = "done"
       /\ errors' = IF sd[c].res = "Err"
                    THEN errors \cup {children[c].member} ELSE errors
    /\ shutdown_tasks' = Tail(shutdown_tasks)
    /\ UNCHANGED <<servers, pc, op, idx, spawned_indices, rb, rbChild, err,
                   result, children, monitor, sd, extBound, answered>>
    /\ UNCHANGED <<supVars, progressVars, stepVars, embVars>>

\* Phase 4: the aggregated result
StopResult(errs) == IF errs # {} THEN "ErrShutdown" ELSE "Ok"

\* Phase 3: abort every member's monitor
RECURSIVE AbortAll(_, _)
AbortAll(mon, i) ==
    IF i > NumServers THEN mon
    ELSE AbortAll(AbortMonitor(mon, servers[i].monitor_handle), i + 1)

\* Phase 3 and Phase 4
StopFinish ==
    /\ pc = "stop_wait"
    /\ shutdown_tasks = <<>>
    /\ monitor' = AbortAll(monitor, 1)
    /\ servers' = [i \in Members |-> ClearHandles(servers[i])]
    /\ result' = StopResult(errors)
    /\ pc' = "idle"
    /\ UNCHANGED <<op, idx, spawned_indices, rb, rbChild, err, shutdown_tasks,
                   errors, children, sd, extBound, answered>>
    /\ UNCHANGED <<supVars, progressVars, stepVars, embVars>>

(***************************************************************************)
(* monitor_server_process, one task per spawned child.  A poll upgrades    *)
(* the weak reference, locks the cell and calls try_wait without a         *)
(* suspension point in between; it waits while a rollback holds the lock.  *)
(***************************************************************************)
\* an initial check that goes on polling after it has published Failed
InitialCheckGoesOn(o) ==
    IF o = "running" THEN [send |-> "Running", next |-> "polling"]
    ELSE [send |-> "Failed", next |-> "polling"]

\* the state the initial check publishes, and whether the task goes on
InitialCheck(o) ==
    CASE o \in Exited -> [send |-> "Failed", next |-> "finished"]
      [] o = "running" -> [send |-> "Running", next |-> "polling"]
      [] OTHER -> [send |-> "Failed", next |-> "finished"]

\* the state a steady-state poll publishes ("" for none)
SteadyCheck(o) ==
    CASE o \in Exited -> [send |-> IF o = "exit0" THEN "Stopped" ELSE "Failed",
                          next |-> "finished"]
      [] o = "running" -> [send |-> "", next |-> "polling"]
      [] OTHER -> [send |-> "Failed", next |-> "finished"]

MonitorStep(c, r, o) ==
    /\ monitor' = [monitor EXCEPT ![c] = r.next]
    /\ children' = IF o \in Exited
                   THEN [children EXCEPT ![c].st = "reaped"] ELSE children
    /\ servers' = IF r.send # ""
                  THEN [servers EXCEPT ![children[c].member].state = r.send]
                  ELSE servers

MonitorInitial(c) ==
    /\ monitor[c] = "initial"
    /\ ~LockHeld(c)
    /\ IF ArcAlive(c)
       THEN \E o \in TryWait(children[c]) : MonitorStep(c, InitialCheck(o), o)
       ELSE /\ monitor' = [monitor EXCEPT ![c] = "finished"]
            /\ UNCHANGED <<children, servers>>
    /\ UNCHANGED <<pc, op, idx, spawned_indices, rb, rbChild, err, result,
                   shutdown_tasks, errors, sd, extBound, answered>>
    /\ UNCHANGED <<supVars, progressVars, stepVars, embVars>>

MonitorPoll(c) ==
    /\ monitor[c] = "polling"
    /\ ~LockHeld(c)
    /\ IF ArcAlive(c)
       THEN \E o \in TryWait(children[c]) : MonitorStep(c, SteadyCheck(o), o)
       ELSE /\ monitor' = [monitor EXCEPT ![c] = "finished"]
            /\ UNCHANGED <<children, servers>>
    /\ UNCHANGED <<pc, op, idx, spawned_indices, rb, rbChild, err, result,
                   shutdown_tasks, errors, sd, extBound, answered>>
    /\ UNCHANGED <<supVars, progressVars, stepVars, embVars>>

(***************************************************************************)
(* The supervisor (manager.rs): ServiceManager::run with its event bus,    *)
(* worker inboxes, pending-restart table and signal register.              *)
(*                                                                         *)
(* The worker agent (crate::service::spawn) and the lifecycle step         *)
(* function (crate::lifecycle, crate::state_machine) are not part of the   *)
(* source tree at hand; they are modelled from sections 4.1 and 4.3 of     *)
(* the specification.                                                      *)
(*                                                                         *)
(* mpc is the supervisor's position:                                       *)
(*   "created"    ServiceManager::new has returned                         *)
(*   "ready"      start_http_servers has returned Ok                       *)
(*   "failed"     start_http_servers failed, run is never called           *)
(*   "starting"   run: "starting" announced                                *)
(*   "startup"    run: Start sent to the workers                           *)
(*   "loop"       run: in select!                                          *)
(*   "fatal"      handle_event(Fatal): about to announce the manager Fatal *)
(*   "log_emit"   log-rotate tick: about to announce LogRotate             *)
(*   "restarting" process_pending_restarts: walking to_restart             *)
(*   "stopping"   signal seen: about to announce "stopping"                *)
(*   "fleet"      about to shut the embedded servers down                  *)
(*   "workers"    about to send Shutdown to the workers and break          *)
(*   "exited"     the loop has been left                                   *)
(*   "announced"  "stopped" has been put on the bus                        *)
(*   "returned"   run has returned                                         *)
(* A bus send blocks while the bus is full (crossbeam bounded channel).    *)
(***************************************************************************)
Manager == 0
Evt(t, s, k) == [type |-> t, service |-> s, kind |-> k]

NoRestart == [attempts |-> 0, wait |-> 0]
NewWorker == [state |-> "Stopped", child |-> "none", alive |-> TRUE,
              shut |-> FALSE]

\* Lifecycle::step (specification 4.1): next state and action; unlisted
\* combinations are the identity with action None
LifecycleStates == {"Stopped", "Starting", "Running", "Stopping", "Failed"}
LifecycleEvents == {"CmdStart", "CmdStop", "CmdShutdown", "ProcSpawned",
                    "HealthOk", "HealthFail", "ProcExitedClean",
                    "ProcExitedUnclean", "Timeout"}

\* a step function that lets CmdStart restart a running entity
stepRestartsRunning(state, event) ==
    IF event = "CmdStart" /\ state \in {"Stopped", "Failed", "Running"}
    THEN [next |-> "Starting", action |-> "SpawnProcess"]
    ELSE IF state = "Starting" /\ event = "HealthOk"
    THEN [next |-> "Running", action |-> "MarkRunning"]
    ELSE [next |-> state, action |-> "None"]

step(state, event) ==
    CASE state = "Stopped" /\ event = "CmdStart" ->
            [next |-> "Starting", action |-> "SpawnProcess"]
      [] state = "Starting" /\ event = "HealthOk" ->
            [next |-> "Running", action |-> "MarkRunning"]
      [] state = "Starting" /\ event \in {"ProcExitedClean", "ProcExitedUnclean"} ->
            [next |-> "Failed", action |-> "MarkFailed"]
      [] state = "Running" /\ event = "HealthFail" ->
            [next |-> "Failed", action |-> "MarkFailed"]
      [] state = "Running" /\ event \in {"CmdStop", "CmdShutdown"} ->
            [next |-> "Stopping", action |-> "SendTermSignal"]
      [] state = "Running" /\ event = "ProcExitedClean" ->
            [next |-> "Stopped", action |-> "MarkStopped"]
      [] state = "Running" /\ event = "ProcExitedUnclean" ->
            [next |-> "Failed", action |-> "MarkFailed"]
      [] state = "Stopping" /\ event \in {"ProcExitedClean", "ProcExitedUnclean"} ->
            [next |-> "Stopped", action |-> "MarkStopped"]
      [] state = "Stopping" /\ event = "Timeout" ->
            [next |-> "Stopping", action |-> "SendKillSignal"]
      [] state = "Failed" /\ event = "CmdStart" ->
            [next |-> "Starting", action |-> "SpawnProcess"]
      [] OTHER -> [next |-> state, action |-> "None"]

\* Lifecycle::is_running
is_running == lifecycle = "Running"

\* ServiceManager::new: one worker agent per configured service, an empty
\* bus, an empty restart table, no embedded servers yet
SupInit ==
    /\ lifecycle = "Stopped"
    /\ mpc = "created"
    /\ cur = <<>>
    /\ bus = <<>>
    /\ inbox = [w \in Workers |-> <<>>]
    /\ worker = [w \in Workers |-> NewWorker]
    /\ pending_restarts = [w \in Workers |-> NoRestart]
    /\ RECEIVED_SIGNAL = 0
    /\ embedded_servers = "None"
    /\ run_result = "none"
    /\ rotations = 0
    /\ crashes = [w \in Workers |-> 0]

\* the daemon process is still there (run has not returned)
ProcessUp == mpc \notin {"failed", "returned"}

BusRoom == Len(bus) < BusBound
InboxRoom(w) == Len(inbox[w]) < InboxBound

\* tx.send(cmd) on a worker's inbox: the command is queued while the
\* worker's loop is there to receive it, and dropped (Err, ignored) after
Deliver(box, w, cmd) ==
    IF worker[w].alive THEN [box EXCEPT ![w] = Append(@, cmd)] ELSE box

\* for tx in self.workers.values() { tx.send(cmd) }
RECURSIVE FanOut(_, _, _)
FanOut(box, w, cmd) ==
    IF w > NumWorkers THEN box ELSE FanOut(Deliver(box, w, cmd), w + 1, cmd)

\* ServiceManager::start_http_servers (called by run_daemon before run)
start_http_servers ==
    /\ mpc = "created"
    /\ \E ok \in BOOLEAN :
         IF ok THEN /\ embedded_servers' = "Some"
                    /\ mpc' = "ready"
                    /\ UNCHANGED run_result
               ELSE /\ mpc' = "failed"
                    /\ run_result' = "Err"
                    /\ UNCHANGED embedded_servers
    /\ UNCHANGED <<lifecycle, cur, bus, inbox, worker, pending_restarts,
                   RECEIVED_SIGNAL>>
    /\ UNCHANGED <<fleetVars, progressVars, stepVars, embVars, rotations, crashes>>

\* run: lifecycle start event, "starting" announced
RunStartup ==
    /\ mpc = "ready"
    /\ LET r == step(lifecycle, "CmdStart")
       IN  /\ lifecycle' = r.next
           /\ IF r.action = "SpawnProcess"
              THEN /\ BusRoom
                   /\ bus' = Append(bus, Evt("State", Manager, "starting"))
                   /\ mpc' = "starting"
              ELSE /\ mpc' = "loop"
                   /\ UNCHANGED bus
    /\ UNCHANGED <<cur, inbox, worker, pending_restarts, RECEIVED_SIGNAL,
                   embedded_servers, run_result>>
    /\ UNCHANGED <<fleetVars, progressVars, stepVars, embVars, rotations, crashes>>

\* run: the initial start-up pass, Start to every worker
RunStartWorkers ==
    /\ mpc = "starting"
    /\ \A w \in Workers : InboxRoom(w)
    /\ inbox' = FanOut(inbox, 1, "Start")
    /\ mpc' = "startup"
    /\ UNCHANGED <<lifecycle, cur, bus, worker, pending_restarts,
                   RECEIVED_SIGNAL, embedded_servers, run_result>>
    /\ UNCHANGED <<fleetVars, progressVars, stepVars, embVars, rotations, crashes>>

\* run: "running" announced, the loop is entered
RunRunning ==
    /\ mpc = "startup"
    /\ BusRoom
    /\ bus' = Append(bus, Evt("State", Manager, "running"))
    /\ mpc' = "loop"
    /\ UNCHANGED <<lifecycle, cur, inbox, worker, pending_restarts,
                   RECEIVED_SIGNAL, embedded_servers, run_result>>
    /\ UNCHANGED <<fleetVars, progressVars, stepVars, embVars, rotations, crashes>>

\* schedule_restart that starts every entry at attempt 1
ScheduleNoCount(tbl, s, delay) ==
    IF s \in Workers THEN [tbl EXCEPT ![s] = [attempts |-> 1, wait |-> delay]]
    ELSE tbl

\* schedule_restart: the table after scheduling s (Stop is sent by the
\* caller below); nothing happens for a name that is not a worker
schedule_restart(tbl, s, delay) ==
    IF s \in Workers
    THEN [tbl EXCEPT ![s] = [attempts |-> IF tbl[s].attempts > 0
                                          THEN tbl[s].attempts + 1 ELSE 1,
                             wait |-> delay]]
    ELSE tbl

\* schedule_restart: tx.send(Cmd::Stop).ok()
SendStop(box, s) == IF s \in Workers THEN Deliver(box, s, "Stop") ELSE box

\* history: one more unexpected exit of service s has been handled; the
\* count stops at MaxCrashes
Count(c, s) ==
    IF s \in Workers /\ c[s] < MaxCrashes THEN [c EXCEPT ![s] = @ + 1] ELSE c

\* handle_event: one event is taken off the bus; `counting` says whether
\* the history of handled exits is kept
handle_event(counting) ==
    /\ mpc = "loop"
    /\ bus # <<>>
    /\ LET e == Head(bus)
       IN  /\ bus' = Tail(bus)
           /\ CASE e.type = "State" /\ e.kind = "stopped" /\ e.service # Manager ->
                     /\ InboxRoom(e.service)
                     /\ inbox' = SendStop(inbox, e.service)
                     /\ pending_restarts' = schedule_restart(pending_restarts, e.service, 0)
                     /\ crashes' = IF counting THEN Count(crashes, e.service)
                                                ELSE crashes
                     /\ UNCHANGED <<mpc, cur>>
                [] e.type = "Health" /\ e.kind = "unhealthy" ->
                     /\ InboxRoom(e.service)
                     /\ inbox' = SendStop(inbox, e.service)
                     /\ pending_restarts' =
                            schedule_restart(pending_restarts, e.service, HealthDelay)
                     /\ UNCHANGED <<mpc, cur, crashes>>
                [] e.type = "Fatal" ->
                     /\ mpc' = "fatal"
                     /\ cur' = <<e.service>>
                     /\ UNCHANGED <<inbox, pending_restarts, crashes>>
                [] OTHER -> UNCHANGED <<mpc, cur, inbox, pending_restarts, crashes>>
    /\ UNCHANGED <<lifecycle, worker, RECEIVED_SIGNAL, embedded_servers,
                   run_result>>
    /\ UNCHANGED <<fleetVars, progressVars, stepVars, embVars, rotations>>

HandleEvent == handle_event(FALSE)

\* the same handler with the history of handled exits kept
HandleEventCounted == handle_event(TRUE)

\* handle_event(Fatal): the manager-level Fatal is sent, then the restart
\* is scheduled
HandleFatal ==
    /\ mpc = "fatal"
    /\ BusRoom
    /\ LET s == cur[1]
       IN  /\ s \in Workers => InboxRoom(s)
           /\ bus' = Append(bus, Evt("Fatal", Manager, ""))
           /\ inbox' = SendStop(inbox, s)
           /\ pending_restarts' = schedule_restart(pending_restarts, s, FatalDelay)
    /\ mpc' = "loop"
    /\ cur' = <<>>
    /\ UNCHANGED <<lifecycle, worker, RECEIVED_SIGNAL, embedded_servers,
                   run_result>>
    /\ UNCHANGED <<fleetVars, progressVars, stepVars, embVars, rotations, crashes>>

\* the signal handler: a single store of the signal number
Signal(sig) ==
    /\ ProcessUp
    /\ RECEIVED_SIGNAL' = sig
    /\ UNCHANGED <<lifecycle, mpc, cur, bus, inbox, worker, pending_restarts,
                   embedded_servers, run_result>>
    /\ UNCHANGED <<fleetVars, progressVars, stepVars, embVars, rotations, crashes>>

\* a poll that takes notice of SIGTERM only
check_signals_term_only == IF RECEIVED_SIGNAL = SIGTERM THEN SIGTERM ELSE 0

\* check_signals: swap the register with 0
check_signals == RECEIVED_SIGNAL

\* sig_tick: poll the register; a signal starts the orderly shutdown
SigTick ==
    /\ mpc = "loop"
    /\ RECEIVED_SIGNAL' = 0
    /\ mpc' = IF check_signals # 0 THEN "stopping" ELSE mpc
    /\ UNCHANGED <<lifecycle, cur, bus, inbox, worker, pending_restarts,
                   embedded_servers, run_result>>
    /\ UNCHANGED <<fleetVars, progressVars, stepVars, embVars, rotations, crashes>>

\* "stopping" is announced
AnnounceStopping ==
    /\ mpc = "stopping"
    /\ BusRoom
    /\ bus' = Append(bus, Evt("State", Manager, "stopping"))
    /\ mpc' = "fleet"
    /\ UNCHANGED <<lifecycle, cur, inbox, worker, pending_restarts,
                   RECEIVED_SIGNAL, embedded_servers, run_result>>
    /\ UNCHANGED <<fleetVars, progressVars, stepVars, embVars, rotations, crashes>>

\* embedded_servers.take() and shutdown_all_servers(servers).await, whose
\* result is not looked at
ShutdownFleet ==
    /\ mpc = "fleet"
    /\ embedded_servers' = "None"
    /\ mpc' = "workers"
    /\ UNCHANGED <<lifecycle, cur, bus, inbox, worker, pending_restarts,
                   RECEIVED_SIGNAL, run_result>>
    /\ UNCHANGED <<fleetVars, progressVars, stepVars, embVars, rotations, crashes>>

\* Shutdown is sent to every worker and the loop is left at once
ShutdownWorkers ==
    /\ mpc = "workers"
    /\ \A w \in Workers : worker[w].alive => InboxRoom(w)
    /\ inbox' = FanOut(inbox, 1, "Shutdown")
    /\ mpc' = "exited"
    /\ UNCHANGED <<lifecycle, cur, bus, worker, pending_restarts,
                   RECEIVED_SIGNAL, embedded_servers, run_result>>
    /\ UNCHANGED <<fleetVars, progressVars, stepVars, embVars, rotations, crashes>>

\* after the loop: "stopped" is announced
AnnounceStopped ==
    /\ mpc = "exited"
    /\ BusRoom
    /\ bus' = Append(bus, Evt("State", Manager, "stopped"))
    /\ mpc' = "announced"
    /\ UNCHANGED <<lifecycle, cur, inbox, worker, pending_restarts,
                   RECEIVED_SIGNAL, embedded_servers, run_result>>
    /\ UNCHANGED <<fleetVars, progressVars, stepVars, embVars, rotations, crashes>>

\* run returns Ok(()); run_daemon returns and the process ends, the
\* worker threads with it
RunReturn ==
    /\ mpc = "announced"
    /\ mpc' = "returned"
    /\ run_result' = "Ok"
    /\ UNCHANGED <<lifecycle, cur, bus, inbox, worker, pending_restarts,
                   RECEIVED_SIGNAL, embedded_servers>>
    /\ UNCHANGED <<fleetVars, progressVars, stepVars, embVars, rotations, crashes>>

\* health_tick: fan TickHealth out if the manager's lifecycle is running
HealthTick ==
    /\ mpc = "loop"
    /\ IF is_running
       THEN /\ \A w \in Workers : worker[w].alive => InboxRoom(w)
            /\ inbox' = FanOut(inbox, 1, "TickHealth")
       ELSE UNCHANGED inbox
    /\ UNCHANGED <<lifecycle, mpc, cur, bus, worker, pending_restarts,
                   RECEIVED_SIGNAL, embedded_servers, run_result>>
    /\ UNCHANGED <<fleetVars, progressVars, stepVars, embVars, rotations, crashes>>

\* log_rotate_tick: fan TickLogRotate out, then announce
LogRotateTick ==
    /\ mpc = "loop"
    /\ rotations < MaxLogRotations
    /\ rotations' = rotations + 1
    /\ \A w \in Workers : worker[w].alive => InboxRoom(w)
    /\ inbox' = FanOut(inbox, 1, "TickLogRotate")
    /\ mpc' = "log_emit"
    /\ UNCHANGED <<lifecycle, cur, bus, worker, pending_restarts,
                   RECEIVED_SIGNAL, embedded_servers, run_result>>
    /\ UNCHANGED <<fleetVars, progressVars, stepVars, embVars, crashes>>

LogRotateEmit ==
    /\ mpc = "log_emit"
    /\ BusRoom
    /\ bus' = Append(bus, Evt("LogRotate", Manager, ""))
    /\ mpc' = "loop"
    /\ UNCHANGED <<lifecycle, cur, inbox, worker, pending_restarts,
                   RECEIVED_SIGNAL, embedded_servers, run_result>>
    /\ UNCHANGED <<fleetVars, progressVars, stepVars, embVars, rotations, crashes>>

\* a scan that takes every entry, due or not
DueAny(tbl) == {w \in Workers : tbl[w].attempts > 0}

\* the entries whose stop_time has been reached at this restart tick
Due(tbl) == {w \in Workers : tbl[w].attempts > 0 /\ tbl[w].wait = 0}

\* 100ms pass: every other entry is one tick closer to its stop_time
Elapse(tbl) ==
    [w \in Workers |-> IF tbl[w].wait > 0
                       THEN [tbl[w] EXCEPT !.wait = @ - 1] ELSE tbl[w]]

\* the orders in which the HashMap may be walked
Orders(S) ==
    {q \in [1..Cardinality(S) -> S] : \A i, j \in 1..Cardinality(S) : i # j => q[i] # q[j]}

\* restart_tick / process_pending_restarts: collect to_restart
RestartTick ==
    /\ mpc = "loop"
    /\ IF Due(pending_restarts) = {}
       THEN /\ pending_restarts' = Elapse(pending_restarts)
            /\ UNCHANGED <<mpc, cur>>
       ELSE /\ \E q \in Orders(Due(pending_restarts)) : cur' = q
            /\ mpc' = "restarting"
            /\ pending_restarts' = Elapse(pending_restarts)
    /\ UNCHANGED <<lifecycle, bus, inbox, worker, RECEIVED_SIGNAL,
                   embedded_servers, run_result>>
    /\ UNCHANGED <<fleetVars, progressVars, stepVars, embVars, rotations, crashes>>

\* process_pending_restarts: one ready service is restarted
RestartOne ==
    /\ mpc = "restarting"
    /\ LET s == Head(cur)
       IN  /\ BusRoom
           /\ worker[s].alive => InboxRoom(s)
           /\ pending_restarts' = [pending_restarts EXCEPT ![s] = NoRestart]
           /\ inbox' = Deliver(inbox, s, "Start")
           /\ bus' = Append(bus, Evt("State", Manager, "restarted-service"))
           /\ cur' = Tail(cur)
           /\ mpc' = IF Tail(cur) = <<>> THEN "loop" ELSE "restarting"
    /\ UNCHANGED <<lifecycle, worker, RECEIVED_SIGNAL, embedded_servers,
                   run_result>>
    /\ UNCHANGED <<fleetVars, progressVars, stepVars, embVars, rotations, crashes>>

(***************************************************************************)
(* The worker agent (specification 4.3).                                   *)
(***************************************************************************)
\* the agent takes one command from its inbox
WorkerRecv(w) ==
    /\ ProcessUp
    /\ worker[w].alive
    /\ inbox[w] # <<>>
    /\ inbox' = [inbox EXCEPT ![w] = Tail(@)]
    /\ LET cmd == Head(inbox[w])
           me == worker[w]
       IN  CASE cmd = "Start" ->
                  LET r == step(me.state, "CmdStart")
                  IN  IF r.action = "SpawnProcess"
                      THEN /\ BusRoom
                           /\ \/ /\ worker' = [worker EXCEPT ![w] =
                                       [me EXCEPT !.state = r.next, !.child = "live"]]
                                 /\ bus' = Append(bus, Evt("State", w, "starting"))
                              \/ /\ worker' = [worker EXCEPT ![w].state = "Failed"]
                                 /\ bus' = Append(bus, Evt("Fatal", w, ""))
                      ELSE UNCHANGED <<worker, bus>>
             [] cmd = "Stop" ->
                  /\ worker' = [worker EXCEPT ![w].state = step(me.state, "CmdStop").next]
                  /\ UNCHANGED bus
             [] cmd = "Shutdown" ->
                  /\ worker' = [worker EXCEPT ![w] =
                        [me EXCEPT !.state = step(me.state, "CmdShutdown").next,
                                   !.shut = TRUE,
                                   !.alive = me.child = "live" \/ me.child = "exited"]]
                  /\ UNCHANGED bus
             [] cmd = "TickHealth" ->
                  IF me.state = "Running"
                  THEN /\ BusRoom
                       /\ \E h \in {"healthy", "unhealthy"} :
                            /\ bus' = Append(bus, Evt("Health", w, h))
                            /\ worker' = [worker EXCEPT ![w].state =
                                  IF h = "healthy" THEN me.state
                                  ELSE step(me.state, "HealthFail").next]
                  ELSE UNCHANGED <<worker, bus>>
             [] cmd = "TickLogRotate" ->
                  /\ BusRoom
                  /\ bus' = Append(bus, Evt("LogRotate", w, ""))
                  /\ UNCHANGED worker
    /\ UNCHANGED <<lifecycle, mpc, cur, pending_restarts, RECEIVED_SIGNAL,
                   embedded_servers, run_result>>
    /\ UNCHANGED <<fleetVars, progressVars, stepVars, embVars, rotations, crashes>>

\* the child is confirmed alive: "running" is announced
WorkerConfirm(w) ==
    /\ ProcessUp
    /\ worker[w].alive
    /\ worker[w].state = "Starting" /\ worker[w].child = "live"
    /\ BusRoom
    /\ worker' = [worker EXCEPT ![w].state = step(@, "HealthOk").next]
    /\ bus' = Append(bus, Evt("State", w, "running"))
    /\ UNCHANGED <<lifecycle, mpc, cur, inbox, pending_restarts,
                   RECEIVED_SIGNAL, embedded_servers, run_result>>
    /\ UNCHANGED <<fleetVars, progressVars, stepVars, embVars, rotations, crashes>>

\* the worker's child terminates (on its own, or on a signal)
WorkerChildExit(w) ==
    /\ worker[w].child = "live"
    /\ worker' = [worker EXCEPT ![w].child = "exited"]
    /\ UNCHANGED <<lifecycle, mpc, cur, bus, inbox, pending_restarts,
                   RECEIVED_SIGNAL, embedded_servers, run_result>>
    /\ UNCHANGED <<fleetVars, progressVars, stepVars, embVars, rotations, crashes>>

\* the agent waits on its terminated child; an exit it did not ask for
\* is announced as "stopped"
WorkerReap(w) ==
    /\ ProcessUp
    /\ worker[w].alive
    /\ worker[w].child = "exited"
    /\ \E ev \in {"ProcExitedClean", "ProcExitedUnclean"} :
         worker' = [worker EXCEPT ![w] =
            [@ EXCEPT !.child = "reaped",
                      !.state = step(worker[w].state, ev).next,
                      !.alive = ~worker[w].shut]]
    /\ IF worker[w].state = "Stopping"
       THEN UNCHANGED bus
       ELSE /\ BusRoom
            /\ bus' = Append(bus, Evt("State", w, "stopped"))
    /\ UNCHANGED <<lifecycle, mpc, cur, inbox, pending_restarts,
                   RECEIVED_SIGNAL, embedded_servers, run_result>>
    /\ UNCHANGED <<fleetVars, progressVars, stepVars, embVars, rotations, crashes>>

(***************************************************************************)
(* The install progress channel: a bounded tokio mpsc channel of           *)
(* InstallProgress events with its two send disciplines, as used by        *)
(* InstallContext (install/install/core/context.rs) and by download_binary *)
(* (install/download/core.rs).  `chan` is the queue, `rx_open` says        *)
(* whether the receiver is still alive, `last` records the last send made  *)
(* together with the condition of the channel it met.                      *)
(***************************************************************************)
NoSend == [fn |-> "none", ret |-> "none", enqueued |-> FALSE, warned |-> FALSE,
           attached |-> FALSE, closed |-> FALSE, full |-> FALSE,
           disabled |-> FALSE, prior |-> 0]

\* the start of an install run (run_install / the GUI runner): the channel
\* exists, no InstallContext yet (InstallContext::new gives no channel and
\* a clear flag), no download made
ProgressInit ==
    /\ ipc = "downloads"
    /\ progress_tx = "None"
    /\ progress_disabled = FALSE
    /\ dl_disabled = FALSE
    /\ downloads = 0
    /\ chan = <<>>
    /\ rx_open = TRUE
    /\ warnings = 0
    /\ last = NoSend

\* Sender::is_closed
is_closed == ~rx_open

\* Sender::try_send on a queue q: a closed channel is reported before a
\* full one
try_send(q) ==
    IF is_closed THEN "Closed"
    ELSE IF Len(q) >= ProgressCap THEN "Full"
    ELSE "Ok"

\* the record of a send: what the channel looked like, what was returned,
\* and how many closure warnings had been logged before it
SendRecord(f, ret, att, dis, q, q2, w) ==
    [fn |-> f, ret |-> ret, enqueued |-> q2 # q, warned |-> w,
     attached |-> att, closed |-> is_closed, full |-> Len(q) >= ProgressCap,
     disabled |-> dis, prior |-> warnings]

\* a critical send that swallows the Full error
CriticalIgnoreFull(attached, r) ==
    IF attached /\ r = "Closed" THEN "Err" ELSE "Ok"

\* the Result of send_critical_progress / send_critical given the outcome r
\* of try_send: without a channel the Some branch is skipped and Ok(())
\* is returned; Closed and Full both map to an error
CriticalResult(attached, r) ==
    IF attached /\ r # "Ok" THEN "Err" ELSE "Ok"

\* the `?` after a call: an error ends the install run
Propagate(ret, next) == IF ret = "Err" THEN "aborted" ELSE next

\* install_kodegen_daemon is entered, after download_all_binaries returned
\* Ok (every binary downloaded) or was skipped (dry run): InstallContext::new,
\* then, with a sender, InstallContext::set_progress_channel
install_kodegen_daemon ==
    /\ ipc = "downloads"
    /\ downloads \in {0, MaxDownloads}
    /\ \E tx \in {"None", "Some"} :
           ipc' = IF tx = "Some" THEN "context" ELSE "validate"
    /\ progress_tx' = "None"
    /\ progress_disabled' = FALSE
    /\ UNCHANGED <<dl_disabled, downloads, chan, rx_open, warnings, last>>
    /\ UNCHANGED <<fleetVars, supVars, stepVars, embVars>>

\* InstallContext::set_progress_channel
set_progress_channel ==
    /\ ipc = "context"
    /\ progress_tx = "None"
    /\ progress_tx' = "Some"
    /\ ipc' = "validate"
    /\ UNCHANGED <<progress_disabled, dl_disabled, downloads, chan, rx_open,
                   warnings, last>>
    /\ UNCHANGED <<fleetVars, supVars, stepVars, embVars>>

\* InstallContext::send_critical_progress, called once at the end of
\* install_kodegen_daemon, which then clears progress_tx and returns
send_critical_progress ==
    LET attached == progress_tx = "Some"
        r == try_send(chan)
        ret == CriticalResult(attached, r)
    IN  /\ ipc = "finish"
        /\ chan' = IF attached /\ r = "Ok" THEN Append(chan, "critical") ELSE chan
        /\ last' = SendRecord("send_critical_progress", ret,
                              attached, progress_disabled, chan, chan', FALSE)
        /\ ipc' = Propagate(ret, "done")
        /\ progress_tx' = "None"
        /\ UNCHANGED <<progress_disabled, dl_disabled, downloads,
                       rx_open, warnings>>
    /\ UNCHANGED <<fleetVars, supVars, stepVars, embVars>>

\* a best-effort send that warns on every failed try_send
WarnsOnAnyFailure(disabled, attached, r) ==
    ~disabled /\ attached /\ r # "Ok"

\* send_progress_best_effort / send_best_effort: does this call log the
\* closure warning (and set the flag)?  Only when the flag is clear, a
\* channel is attached and try_send reports Closed.
BestEffortWarns(disabled, attached, r) ==
    ~disabled /\ attached /\ r = "Closed"

\* does the call enqueue?
BestEffortEnqueues(disabled, attached, r) ==
    ~disabled /\ attached /\ r = "Ok"

\* a sender that never stores the flag
FlagNeverStored(disabled, w) == disabled

\* progress_disabled after a best-effort send: stored true by the send
\* that warns
FlagAfter(disabled, w) == disabled \/ w

\* the install pipeline's steps that report through send_progress, in
\* order: validate_prerequisites, create_directories,
\* generate_certificates, configure_services
AfterStep(p) ==
    CASE p = "validate"     -> "directories"
      [] p = "directories"  -> "certificates"
      [] p = "certificates" -> "services"
      [] p = "services"     -> "finish"

PipelineSteps == {"validate", "directories", "certificates", "services"}

\* InstallContext::send_progress_best_effort (through send_progress), at
\* the end of a pipeline step
send_progress_best_effort ==
    LET attached == progress_tx = "Some"
        r == try_send(chan)
        w == BestEffortWarns(progress_disabled, attached, r)
    IN  /\ ipc \in PipelineSteps
        /\ chan' = IF BestEffortEnqueues(progress_disabled, attached, r)
                   THEN Append(chan, "best") ELSE chan
        /\ progress_disabled' = FlagAfter(progress_disabled, w)
        /\ warnings' = IF w THEN warnings + 1 ELSE warnings
        /\ last' = SendRecord("send_progress_best_effort", "unit", attached,
                              progress_disabled, chan, chan', w)
        /\ ipc' = AfterStep(ipc)
        /\ UNCHANGED <<progress_tx, dl_disabled, downloads, rx_open>>
    /\ UNCHANGED <<fleetVars, supVars, stepVars, embVars>>

\* download_all_binaries calls download_binary for the next binary: a
\* fresh progress_disabled flag
download_binary ==
    /\ ipc = "downloads"
    /\ downloads < MaxDownloads
    /\ downloads' = downloads + 1
    /\ dl_disabled' = FALSE
    /\ ipc' = "discover"
    /\ UNCHANGED <<progress_tx, progress_disabled, chan, rx_open, warnings, last>>
    /\ UNCHANGED <<fleetVars, supVars, stepVars, embVars>>

\* the three critical sends of download_binary, in order: Discovering,
\* Extracting, Complete; after the last one download_binary returns
AfterCritical(p) ==
    CASE p = "discover" -> "stream"
      [] p = "extract"  -> "complete"
      [] p = "complete" -> "downloads"

\* download_binary::send_critical (the sender is not optional here)
send_critical ==
    LET r == try_send(chan)
        ret == CriticalResult(TRUE, r)
    IN  /\ ipc \in {"discover", "extract", "complete"}
        /\ chan' = IF r = "Ok" THEN Append(chan, "critical") ELSE chan
        /\ last' = SendRecord("send_critical", ret, TRUE,
                              dl_disabled, chan, chan', FALSE)
        /\ ipc' = Propagate(ret, AfterCritical(ipc))
        /\ UNCHANGED <<progress_tx, progress_disabled, dl_disabled, downloads,
                       rx_open, warnings>>
    /\ UNCHANGED <<fleetVars, supVars, stepVars, embVars>>

\* download_binary::send_best_effort, once per reported chunk of the
\* stream; the stream then goes on or has ended
send_best_effort ==
    LET r == try_send(chan)
        w == BestEffortWarns(dl_disabled, TRUE, r)
    IN  /\ ipc = "stream"
        /\ chan' = IF BestEffortEnqueues(dl_disabled, TRUE, r)
                   THEN Append(chan, "best") ELSE chan
        /\ dl_disabled' = FlagAfter(dl_disabled, w)
        /\ warnings' = IF w THEN warnings + 1 ELSE warnings
        /\ last' = SendRecord("send_best_effort", "unit", TRUE, dl_disabled,
                              chan, chan', w)
        /\ ipc' \in {"stream", "extract"}
        /\ UNCHANGED <<progress_tx, progress_disabled, downloads, rx_open>>
    /\ UNCHANGED <<fleetVars, supVars, stepVars, embVars>>

\* the response stream ends with no chunk left to report
StreamEnd ==
    /\ ipc = "stream"
    /\ ipc' = "extract"
    /\ UNCHANGED <<progress_tx, progress_disabled, dl_disabled, downloads,
                   chan, rx_open, warnings, last>>
    /\ UNCHANGED <<fleetVars, supVars, stepVars, embVars>>

\* any other step of the run fails (network, file system, toolchain): the
\* error is propagated and the run ends
PipelineError ==
    /\ ipc \notin {"done", "aborted"}
    /\ ipc' = "aborted"
    /\ UNCHANGED <<progress_tx, progress_disabled, dl_disabled, downloads,
                   chan, rx_open, warnings, last>>
    /\ UNCHANGED <<fleetVars, supVars, stepVars, embVars>>

\* the consumer drains one event (rx.recv / rx.try_recv)
ProgressRecv ==
    /\ rx_open /\ chan # <<>>
    /\ chan' = Tail(chan)
    /\ UNCHANGED <<ipc, progress_tx, progress_disabled, dl_disabled, downloads,
                   rx_open, warnings, last>>
    /\ UNCHANGED <<fleetVars, supVars, stepVars, embVars>>

\* the consumer goes away (window closed, task ended): the receiver is
\* dropped and what is still queued is discarded with it
ProgressClose ==
    /\ rx_open
    /\ rx_open' = FALSE
    /\ chan' = <<>>
    /\ UNCHANGED <<ipc, progress_tx, progress_disabled, dl_disabled, downloads,
                   warnings, last>>
    /\ UNCHANGED <<fleetVars, supVars, stepVars, embVars>>

(***************************************************************************)
(* One entity's Lifecycle on its own: the state starts at Stopped          *)
(* (Lifecycle::default) and is fed an arbitrary sequence of events through *)
(* step; trail keeps the states the entity went through.                   *)
(***************************************************************************)
StepInit ==
    /\ trail = <<"Stopped">>
    /\ fed = <<>>

\* Lifecycle::step(event) on the entity
Feed(e) ==
    /\ Len(fed) < MaxEvents
    /\ trail' = Append(trail, step(trail[Len(trail)], e).next)
    /\ fed' = Append(fed, e)
    /\ UNCHANGED <<fleetVars, supVars, progressVars, embVars>>

(***************************************************************************)
(* The embedded HTTP servers (service/embedded_servers.rs): the daemon     *)
(* starts them one after the other with start_all_servers, which rolls     *)
(* back on the first failure, and stops them with shutdown_all_servers.    *)
(* EmbeddedServer::shutdown cancels the server and then awaits its         *)
(* completion under a timeout; emb_log records both moments.               *)
(***************************************************************************)
Embedded == 1..NumEmbedded

\* no embedded server configured, start_http_servers never called
EmbIdle ==
    /\ emb_cfg = [i \in Embedded |-> FALSE]
    /\ emb_pc = "unused"
    /\ emb_i = 0
    /\ emb_servers = <<>>
    /\ emb_todo = <<>>
    /\ emb_cur = 0
    /\ emb_errors = <<>>
    /\ emb_result = "none"
    /\ emb_started = <<>>
    /\ emb_log = <<>>

\* no call made yet, any configuration (category_servers, each enabled or not)
EmbInit ==
    /\ emb_cfg \in [Embedded -> BOOLEAN]
    /\ emb_pc = "idle"
    /\ emb_i = 0
    /\ emb_servers = <<>>
    /\ emb_todo = <<>>
    /\ emb_cur = 0
    /\ emb_errors = <<>>
    /\ emb_result = "none"
    /\ emb_started = <<>>
    /\ emb_log = <<>>

\* a rollback that only shuts the newest server down
RollbackNewestOnly(vec) ==
    IF vec = <<>> THEN <<>> ELSE <<vec[Len(vec)]>>

\* rollback_servers: `for server in servers`, the Vec in start order
RollbackOrder(vec) == vec

\* ServiceManager::start_http_servers calls start_all_servers
start_http_servers_call ==
    /\ emb_pc = "idle"
    /\ emb_pc' = "starting"
    /\ emb_i' = 1
    /\ UNCHANGED <<emb_cfg, emb_servers, emb_todo, emb_cur, emb_errors,
                   emb_result, emb_started, emb_log>>
    /\ UNCHANGED <<fleetVars, supVars, progressVars, stepVars>>

\* start_all_servers: one iteration of the loop over the configs, or the
\* return of the Vec once every config has been looked at
start_all_servers ==
    /\ emb_pc = "starting"
    /\ IF emb_i > NumEmbedded
       THEN /\ emb_pc' = "started"
            /\ emb_result' = "Ok"
            /\ UNCHANGED <<emb_i, emb_servers, emb_todo, emb_started>>
       ELSE IF ~emb_cfg[emb_i]
       THEN /\ emb_i' = emb_i + 1
            /\ UNCHANGED <<emb_pc, emb_result, emb_servers, emb_todo, emb_started>>
       ELSE \/ /\ emb_servers' = Append(emb_servers, emb_i)
               /\ emb_started' = Append(emb_started, emb_i)
               /\ emb_i' = emb_i + 1
               /\ UNCHANGED <<emb_pc, emb_result, emb_todo>>
            \/ /\ emb_pc' = "rollback"
               /\ emb_todo' = RollbackOrder(emb_servers)
               /\ emb_servers' = <<>>
               /\ UNCHANGED <<emb_i, emb_result, emb_started>>
    /\ UNCHANGED <<emb_cfg, emb_cur, emb_errors, emb_log>>
    /\ UNCHANGED <<fleetVars, supVars, progressVars, stepVars>>

\* EmbeddedServer::shutdown on the next server of the loop:
\* server_handle.cancel()
EmbeddedShutdown ==
    /\ emb_pc \in {"rollback", "shutdown"}
    /\ emb_cur = 0
    /\ emb_todo # <<>>
    /\ emb_cur' = Head(emb_todo)
    /\ emb_todo' = Tail(emb_todo)
    /\ emb_log' = Append(emb_log, <<"cancel", Head(emb_todo)>>)
    /\ UNCHANGED <<emb_cfg, emb_pc, emb_i, emb_servers, emb_errors, emb_result,
                   emb_started>>
    /\ UNCHANGED <<fleetVars, supVars, progressVars, stepVars>>

\* EmbeddedServer::shutdown: wait_for_completion(timeout) returns, Ok or
\* Err; rollback_servers logs an error, shutdown_all_servers collects it
EmbeddedShutdownDone ==
    /\ emb_cur # 0
    /\ \E r \in {"ok", "err"} :
         /\ emb_log' = Append(emb_log, <<r, emb_cur>>)
         /\ emb_errors' = IF r = "err" /\ emb_pc = "shutdown"
                          THEN Append(emb_errors, emb_cur) ELSE emb_errors
    /\ emb_cur' = 0
    /\ UNCHANGED <<emb_cfg, emb_pc, emb_i, emb_servers, emb_todo, emb_result,
                   emb_started>>
    /\ UNCHANGED <<fleetVars, supVars, progressVars, stepVars>>

\* rollback_servers is through; start_all_servers returns the error and
\* start_http_servers passes it on
rollback_servers ==
    /\ emb_pc = "rollback"
    /\ emb_cur = 0 /\ emb_todo = <<>>
    /\ emb_pc' = "failed"
    /\ emb_result' = "Err"
    /\ UNCHANGED <<emb_cfg, emb_i, emb_servers, emb_todo, emb_cur, emb_errors,
                   emb_started, emb_log>>
    /\ UNCHANGED <<fleetVars, supVars, progressVars, stepVars>>

\* the supervisor takes the Vec and calls shutdown_all_servers
shutdown_all_servers ==
    /\ emb_pc = "started"
    /\ emb_pc' = "shutdown"
    /\ emb_todo' = emb_servers
    /\ emb_servers' = <<>>
    /\ emb_errors' = <<>>
    /\ emb_result' = "none"
    /\ UNCHANGED <<emb_cfg, emb_i, emb_cur, emb_started, emb_log>>
    /\ UNCHANGED <<fleetVars, supVars, progressVars, stepVars>>

\* a shutdown_all_servers that reports success whatever happened
ShutdownAlwaysOk(errs) == "Ok"

\* shutdown_all_servers: Err when errors is not empty
ShutdownAllResult(errs) == IF errs # <<>> THEN "Err" ELSE "Ok"

\* shutdown_all_servers returns
ShutdownAllReturn ==
    /\ emb_pc = "shutdown"
    /\ emb_cur = 0 /\ emb_todo = <<>>
    /\ emb_pc' = "stopped"
    /\ emb_result' = ShutdownAllResult(emb_errors)
    /\ UNCHANGED <<emb_cfg, emb_i, emb_servers, emb_todo, emb_cur, emb_errors,
                   emb_started, emb_log>>
    /\ UNCHANGED <<fleetVars, supVars, progressVars, stepVars>>

Next ==
    \/ StartCall
    \/ Preflight
    \/ SpawnMember
    \/ WaitState
    \/ HealthCheck
    \/ RollbackTake
    \/ RollbackFinish
    \/ StopCall
    \/ StopAwait
    \/ StopFinish
    \/ \E c \in Children : ShutdownStart(c)
    \/ \E c \in Children : ShutdownPoll(c)
    \/ \E c \in Children : MonitorInitial(c)
    \/ \E c \in Children : MonitorPoll(c)
    \/ \E c \in Children : ChildExit(c)
    \/ \E c \in Children : ChildBind(c)

Init == FleetInit /\ SupInit /\ ProgressInit /\ StepInit /\ EmbIdle

Spec == Init /\ [][Next]_vars

(***************************************************************************)
(* The supervisor on its own.                                              *)
(***************************************************************************)
InitSup == FleetIdle /\ SupInit /\ ProgressInit /\ StepInit /\ EmbIdle

NextSup ==
    \/ start_http_servers
    \/ RunStartup
    \/ RunStartWorkers
    \/ RunRunning
    \/ HandleEvent
    \/ HandleFatal
    \/ \E sig \in {SIGINT, SIGTERM} : Signal(sig)
    \/ SigTick
    \/ AnnounceStopping
    \/ ShutdownFleet
    \/ ShutdownWorkers
    \/ AnnounceStopped
    \/ RunReturn
    \/ HealthTick
    \/ LogRotateTick
    \/ LogRotateEmit
    \/ RestartTick
    \/ RestartOne
    \/ \E w \in Workers : WorkerRecv(w)
    \/ \E w \in Workers : WorkerConfirm(w)
    \/ \E w \in Workers : WorkerChildExit(w)
    \/ \E w \in Workers : WorkerReap(w)

SpecSup == InitSup /\ [][NextSup]_vars

(***************************************************************************)
(* The supervisor under fair scheduling.  The supervisor task is always    *)
(* run: each of its sequential steps is taken when it can be (weak         *)
(* fairness); select! picks among its ready branches at random, so a       *)
(* branch that is ready again and again is taken (strong fairness on the   *)
(* signal tick and on the bus branch).  The worker threads are run by the  *)
(* operating system (weak fairness).  A step that waits for room on a      *)
(* full channel is not enabled.                                            *)
(***************************************************************************)
SupFairness ==
    /\ SF_vars(SigTick)
    /\ SF_vars(HandleEvent)
    /\ WF_vars(start_http_servers)
    /\ WF_vars(RunStartup)
    /\ WF_vars(RunStartWorkers)
    /\ WF_vars(RunRunning)
    /\ WF_vars(HandleFatal)
    /\ WF_vars(LogRotateEmit)
    /\ WF_vars(RestartOne)
    /\ WF_vars(AnnounceStopping)
    /\ WF_vars(ShutdownFleet)
    /\ WF_vars(ShutdownWorkers)
    /\ WF_vars(AnnounceStopped)
    /\ WF_vars(RunReturn)
    /\ \A w \in Workers : WF_vars(WorkerRecv(w))
    /\ \A w \in Workers : WF_vars(WorkerConfirm(w))
    /\ \A w \in Workers : WF_vars(WorkerReap(w))

SpecSupFair == InitSup /\ [][NextSup]_vars /\ SupFairness

(***************************************************************************)
(* The supervisor with the history of handled worker exits kept.           *)
(***************************************************************************)
NextCrash ==
    \/ start_http_servers
    \/ RunStartup
    \/ RunStartWorkers
    \/ RunRunning
    \/ HandleEventCounted
    \/ HandleFatal
    \/ \E sig \in {SIGINT, SIGTERM} : Signal(sig)
    \/ SigTick
    \/ AnnounceStopping
    \/ ShutdownFleet
    \/ ShutdownWorkers
    \/ AnnounceStopped
    \/ RunReturn
    \/ HealthTick
    \/ LogRotateTick
    \/ LogRotateEmit
    \/ RestartTick
    \/ RestartOne
    \/ \E w \in Workers : WorkerRecv(w)
    \/ \E w \in Workers : WorkerConfirm(w)
    \/ \E w \in Workers : WorkerChildExit(w)
    \/ \E w \in Workers : WorkerReap(w)

SpecCrash == InitSup /\ [][NextCrash]_vars

(***************************************************************************)
(* The event and restart handlers of the supervisor loop on their own:     *)
(* the supervisor is in select! with one event on the bus and any restart  *)
(* table, and handles the event and the restart ticks that follow.  The    *)
(* workers only take the commands off their inboxes.                       *)
(***************************************************************************)
\* the events a worker can put on the bus: the variants of Evt that
\* handle_event matches on
EventsOf(w) ==
    {Evt("State", w, k) : k \in {"starting", "running", "stopped"}}
        \cup {Evt("Health", w, h) : h \in {"healthy", "unhealthy"}}
        \cup {Evt("LogRotate", w, ""), Evt("Fatal", w, "")}

\* the events the supervisor puts on its own bus before and inside the loop
ManagerEvents ==
    {Evt("State", Manager, k) : k \in {"starting", "running", "restarted-service"}}
        \cup {Evt("LogRotate", Manager, ""), Evt("Fatal", Manager, "")}

\* the RestartState values of the table: absent, or some attempts with
\* some time left to stop_time
RestartStates ==
    {NoRestart} \cup [attempts : 1..MaxCrashes, wait : 0..FatalDelay]

\* the supervisor inside its loop, one event waiting on the bus
LoopInit ==
    /\ lifecycle = step("Stopped", "CmdStart").next
    /\ mpc = "loop"
    /\ cur = <<>>
    /\ bus \in {<<e>> : e \in ManagerEvents \cup UNION {EventsOf(w) : w \in Workers}}
    /\ inbox = [w \in Workers |-> <<>>]
    /\ worker = [w \in Workers |-> NewWorker]
    /\ pending_restarts \in [Workers -> RestartStates]
    /\ RECEIVED_SIGNAL = 0
    /\ embedded_servers = "Some"
    /\ run_result = "none"
    /\ rotations = 0
    /\ crashes = [w \in Workers |-> 0]

\* a worker receives the next command of its inbox
Consume(w) ==
    /\ ProcessUp
    /\ inbox[w] # <<>>
    /\ inbox' = [inbox EXCEPT ![w] = Tail(@)]
    /\ UNCHANGED <<lifecycle, mpc, cur, bus, worker, pending_restarts,
                   RECEIVED_SIGNAL, embedded_servers, run_result>>
    /\ UNCHANGED <<fleetVars, progressVars, stepVars, embVars, rotations, crashes>>

InitHandle == FleetIdle /\ LoopInit /\ ProgressInit /\ StepInit /\ EmbIdle

NextHandle ==
    \/ HandleEvent
    \/ HandleFatal
    \/ RestartTick
    \/ RestartOne
    \/ \E w \in Workers : Consume(w)

SpecHandle == InitHandle /\ [][NextHandle]_vars

(***************************************************************************)
(* The supervisor from construction to return, with workers that take      *)
(* their commands and report nothing: the signal handler, the signal poll  *)
(* and the supervisor's own announcements.                                 *)
(***************************************************************************)
NextSignal ==
    \/ start_http_servers
    \/ RunStartup
    \/ RunStartWorkers
    \/ RunRunning
    \/ HandleEvent
    \/ \E sig \in {SIGINT, SIGTERM} : Signal(sig)
    \/ SigTick
    \/ AnnounceStopping
    \/ ShutdownFleet
    \/ ShutdownWorkers
    \/ AnnounceStopped
    \/ RunReturn
    \/ HealthTick
    \/ LogRotateTick
    \/ LogRotateEmit
    \/ RestartTick
    \/ \E w \in Workers : Consume(w)

SpecSignal == InitSup /\ [][NextSignal]_vars

(***************************************************************************)
(* The lifecycle state machine on its own.                                 *)
(***************************************************************************)
InitStep == FleetIdle /\ SupInit /\ ProgressInit /\ StepInit /\ EmbIdle

NextStep == \E e \in LifecycleEvents : Feed(e)

SpecStep == InitStep /\ [][NextStep]_vars

(***************************************************************************)
(* The embedded servers on their own.                                      *)
(***************************************************************************)
InitEmb == FleetIdle /\ SupInit /\ ProgressInit /\ StepInit /\ EmbInit

NextEmb ==
    \/ start_http_servers_call
    \/ start_all_servers
    \/ EmbeddedShutdown
    \/ EmbeddedShutdownDone
    \/ rollback_servers
    \/ shutdown_all_servers
    \/ ShutdownAllReturn

SpecEmb == InitEmb /\ [][NextEmb]_vars

(***************************************************************************)
(* Both server fleets: a run exercises either the KodegenHttpService fleet *)
(* of child processes or the daemon's embedded servers.                    *)
(***************************************************************************)
InitFleets ==
    /\ SupInit /\ ProgressInit /\ StepInit
    /\ \/ FleetInit /\ EmbIdle
       \/ FleetIdle /\ EmbInit

NextFleets ==
    \/ StartCall
    \/ Preflight
    \/ SpawnMember
    \/ WaitState
    \/ HealthCheck
    \/ RollbackTake
    \/ RollbackFinish
    \/ StopCall
    \/ StopAwait
    \/ StopFinish
    \/ \E c \in Children : ShutdownStart(c)
    \/ \E c \in Children : ShutdownPoll(c)
    \/ \E c \in Children : MonitorInitial(c)
    \/ \E c \in Children : MonitorPoll(c)
    \/ \E c \in Children : ChildExit(c)
    \/ \E c \in Children : ChildBind(c)
    \/ start_http_servers_call
    \/ start_all_servers
    \/ EmbeddedShutdown
    \/ EmbeddedShutdownDone
    \/ rollback_servers
    \/ shutdown_all_servers
    \/ ShutdownAllReturn

SpecFleets == InitFleets /\ [][NextFleets]_vars

(***************************************************************************)
(* The progress channel on its own.                                        *)
(***************************************************************************)
InitBus == FleetIdle /\ SupInit /\ ProgressInit /\ StepInit /\ EmbIdle

NextBus ==
    \/ install_kodegen_daemon
    \/ set_progress_channel
    \/ send_critical_progress
    \/ send_progress_best_effort
    \/ download_binary
    \/ send_critical
    \/ send_best_effort
    \/ StreamEnd
    \/ PipelineError
    \/ ProgressRecv
    \/ ProgressClose

SpecBus == InitBus /\ [][NextBus]_vars

(***************************************************************************)
(* Properties of the fleet manager.                                        *)
(***************************************************************************)
\* a start() call returns in this step
StartReturns == op = "start" /\ pc # "idle" /\ pc' = "idle"

\* every enabled member is Running and has answered 2xx on /health
AllUp ==
    \A i \in Members :
        servers[i].enabled => servers[i].state = "Running" /\ i \in answered

\* no member's child process is live
NoneLive == \A c \in Children : children[c].st # "live"

LiveOf(i) == {c \in Children : children[c].member = i /\ children[c].st = "live"}

\* C1: when start() returns, with success or with an error, either every
\* enabled member is Running and has answered 2xx on /health, or no
\* member's child process is live.
C1_AtomicFleetStartup == [][StartReturns => (AllUp' \/ NoneLive')]_vars

\* some enabled member's port is held by another process
PortCollision ==
    \E i \in Members :
        /\ servers[i].enabled
        /\ \/ servers[i].port \in extBound
           \/ \E c \in Children : /\ children[c].st = "live" /\ children[c].bound
                                  /\ servers[children[c].member].port = servers[i].port

\* C2: if the pre-flight bind of any enabled member's port fails, start()
\* returns the port error in that very step, before any spawn, and leaves
\* every member's state, process cell, monitor and log-forwarding handles,
\* and every child and task, as they were.
C2_PreflightFailsWithoutSideEffects ==
    [][(pc = "preflight" /\ pc' # "preflight" /\ PortCollision)
         => /\ pc' = "idle"
            /\ result' = "ErrPort"
            /\ UNCHANGED <<servers, children, monitor, sd>>]_vars

\* a start() repeated on a running fleet was refused by the pre-flight
C2_Witness ==
    /\ pc = "idle" /\ op = "start" /\ result = "ErrPort"
    /\ \E c \in Children : children[c].st = "live" /\ children[c].bound

\* C3: when the OS refuses to spawn the child of member i, start() fails
\* and every member started earlier in the same call has been shut down by
\* the rollback (its process cell taken) before the error is returned.
C3_SpawnFailureRollsBack ==
    (pc = "idle" /\ op = "start" /\ result = "ErrSpawn")
       => \A k \in 1..Len(spawned_indices) :
             servers[spawned_indices[k]].process = 0

\* C4: the choreography reports success only for a child that a try_wait
\* has reaped.
C4_SuccessOnlyAfterReap ==
    \A c \in Children :
        (sd[c].pc = "done" /\ sd[c].res = "Ok") => children[c].st = "reaped"

\* a child that ignored SIGTERM was killed and reaped in the forced phase
C4_Witness ==
    \E c \in Children :
        /\ sd[c].pc = "done" /\ sd[c].res = "Ok"
        /\ children[c].term = 1 /\ children[c].kill = 1

\* C5 as stated: in every choreography SIGTERM is sent first and exactly
\* once, SIGKILL at most once and only after the whole graceful phase
\* passed without the child exiting.
C5_TermExactlyOnce ==
    \A c \in Children :
        sd[c].pc \in {"graceful", "forced", "done"}
           => /\ children[c].term = 1
              /\ children[c].kill <= 1
              /\ children[c].kill = 1 => sd[c].waited = GracefulPolls

\* C5 amended: when the child still has a pid on entry, SIGTERM is sent
\* first and exactly once, SIGKILL at most once and only after the whole
\* graceful phase passed without the child exiting (no SIGKILL when it
\* exits during that phase); when the child was already reaped, no signal
\* is sent and the call returns success at once.
C5_SignalOrder ==
    \A c \in Children :
        sd[c].pc \in {"graceful", "forced", "done"}
           => /\ children[c].term <= 1
              /\ children[c].kill <= 1
              /\ sd[c].pc \in {"graceful", "forced"} => children[c].term = 1
              /\ sd[c].pc = "graceful" => children[c].kill = 0
              /\ sd[c].pc = "forced" => children[c].kill = 1
              /\ children[c].kill = 1
                    => children[c].term = 1 /\ sd[c].waited = GracefulPolls
              /\ (sd[c].pc = "done" /\ sd[c].waited < GracefulPolls)
                    => children[c].kill = 0
              /\ children[c].term = 0
                    => /\ sd[c].pc = "done" /\ sd[c].res = "Ok"
                       /\ sd[c].polls = 0 /\ children[c].kill = 0
                       /\ children[c].st = "reaped"

\* one child was reaped before its choreography began, another was killed
C5_Witness ==
    /\ \E c \in Children : sd[c].pc = "done" /\ children[c].term = 0
    /\ \E c \in Children : sd[c].pc = "done" /\ children[c].kill = 1

\* C6: a choreography makes at most GracefulPolls + KillPolls + 2 polls,
\* whatever the child does, and a poll never waits for anything.
C6_BoundedShutdown ==
    \A c \in Children :
        /\ sd[c].polls <= GracefulPolls + KillPolls + 2
        /\ sd[c].waited <= GracefulPolls
        /\ sd[c].kwaited <= KillPolls
        /\ sd[c].pc \in {"graceful", "forced"} => TryWait(children[c]) # {}

\* the longest run: the child outlived both phases
C6_Witness ==
    \E c \in Children :
        /\ sd[c].pc = "done" /\ sd[c].res = "Err"
        /\ sd[c].polls = GracefulPolls + KillPolls + 2

\* the supervisor loop has been left after a shutdown signal
LoopExited == mpc \in {"exited", "announced", "returned"}

\* C7: once the supervisor loop has exited after a shutdown signal, every
\* child process a worker spawned has been waited on: none is still
\* running and none is a zombie.
C7_NoUnreapedAfterLoopExit ==
    LoopExited => \A w \in Workers : worker[w].child \in {"none", "reaped"}

\* C8: each fleet member has at most one live child process at every
\* instant, across any sequence of start() and stop() calls.
C8_SingleLiveChild == \A i \in Members : Cardinality(LiveOf(i)) <= 1

(***************************************************************************)
(* Properties of the progress channel.                                     *)
(***************************************************************************)
CriticalSends == {"send_critical_progress", "send_critical"}
BestEffortSends == {"send_progress_best_effort", "send_best_effort"}

\* C9 as stated: a critical send never reports success without the event
\* having been enqueued.
C9_SuccessMeansEnqueued ==
    (last.fn \in CriticalSends /\ last.ret = "Ok") => last.enqueued

\* C9 amended: a critical send made through an attached channel either
\* enqueues the event and returns Ok, or enqueues nothing and returns an
\* error, which it does exactly when the channel is closed or full; a
\* critical send made with no channel attached enqueues nothing and
\* returns Ok.
C9_CriticalEnqueuesOrFails ==
    last.fn \in CriticalSends =>
        IF last.attached
        THEN /\ last.ret = "Ok" <=> last.enqueued
             /\ last.ret = "Err" <=> (last.closed \/ last.full)
             /\ last.ret \in {"Ok", "Err"}
        ELSE last.ret = "Ok" /\ ~last.enqueued

\* a critical send failed on a full, open channel and one succeeded with
\* no channel attached
C9_Witness ==
    /\ last.fn = "send_critical_progress" /\ last.attached
    /\ last.full /\ ~last.closed /\ last.ret = "Err" /\ ~last.enqueued
    /\ Len(chan) = ProgressCap

C11_OneClosureWarning ==
    /\ warnings <= 1
    /\ (last.fn \in BestEffortSends /\ last.attached /\ last.closed)
          => /\ warnings = 1
             /\ last.warned <=> last.prior = 0
             /\ last.fn = "send_best_effort" => dl_disabled
             /\ last.fn = "send_progress_best_effort" => progress_disabled
    /\ (last.fn \in BestEffortSends /\ last.prior >= 1)
          => (last.disabled /\ ~last.warned /\ ~last.enqueued)

\* a best-effort send was made after the closure warning had been logged
\* and was dropped silently
C11_Witness ==
    /\ last.fn = "send_progress_best_effort" /\ last.attached
    /\ last.closed /\ last.prior = 1 /\ warnings = 1
    /\ last.disabled /\ ~last.warned /\ ~last.enqueued

\* C12: for a worker whose child keeps crashing, the pending-restart entry
\* that exists after its k-th handled crash (k = 1, 2, 3) carries attempt
\* count k.
C12_AttemptsCountCrashes ==
    \A w \in Workers :
        (pending_restarts[w].attempts > 0 /\ crashes[w] \in 1..(MaxCrashes - 1))
            => pending_restarts[w].attempts = crashes[w]

ManagerPut(k) == \E i \in 1..Len(bus) : bus[i] = Evt("State", Manager, k)
ShutdownSent(w) ==
    worker[w].shut \/ \E i \in 1..Len(inbox[w]) : inbox[w][i] = "Shutdown"

\* C13: on SIGINT or SIGTERM the supervisor announces "stopping" before it
\* shuts the fleet down, has shut the fleet down before any worker is sent
\* Shutdown, has sent Shutdown to every worker before it leaves the loop,
\* announces "stopped" only after the loop is left, and that "stopped" is
\* the last event put on the bus.
C13_ShutdownOrder ==
    /\ mpc \in {"workers", "exited", "announced", "returned"}
          => (ManagerPut("stopping") /\ embedded_servers = "None")
    /\ \A w \in Workers :
          ShutdownSent(w) => (LoopExited /\ embedded_servers = "None")
    /\ LoopExited => \A w \in Workers : ShutdownSent(w)
    /\ ManagerPut("stopped") => mpc \in {"announced", "returned"}
    /\ ManagerPut("stopped")
          => bus[Len(bus)] = Evt("State", Manager, "stopped")

\* C14: once SIGINT or SIGTERM is in the signal register, the supervisor
\* loop is eventually left (or was never entered because the fleet failed
\* to start), under fair scheduling of the signal tick, whatever the
\* workers put on the bus.
C14_SignalLeadsToExit ==
    (RECEIVED_SIGNAL # 0) ~> (LoopExited \/ mpc = "failed")

StartSent(w) ==
    worker[w] # NewWorker \/ \E i \in 1..Len(inbox[w]) : inbox[w][i] = "Start"
StartingAnnounced == mpc \notin {"created", "ready", "failed"}
RunningAnnounced ==
    mpc \notin {"created", "ready", "failed", "starting", "startup"}

\* C15: at supervisor startup "starting" has been announced before any
\* worker is sent Start, every worker has been sent Start before "running"
\* is announced, and the fleet is started only after "running" has been
\* announced.
C15_StartupOrder ==
    /\ \A w \in Workers : StartSent(w) => StartingAnnounced
    /\ RunningAnnounced => \A w \in Workers : StartSent(w)
    /\ embedded_servers = "Some" => RunningAnnounced

\* the edges the claim allows: forward along Stopped, Starting, Running,
\* Stopping, Stopped; Running to Stopped on a clean exit; anything to Failed
ForwardEdges ==
    {<<"Stopped", "Starting">>, <<"Starting", "Running">>,
     <<"Running", "Stopping">>, <<"Stopping", "Stopped">>,
     <<"Running", "Stopped">>}
    \cup {<<st, "Failed">> : st \in LifecycleStates \ {"Failed"}}
Moves == {i \in 1..Len(fed) : trail[i] # trail[i + 1]}

\* C16 as stated: whatever events are fed to step, every change of an
\* entity's state goes forward along Stopped, Starting, Running, Stopping,
\* {Stopped, Failed}, or is Running to Stopped on a clean exit, or ends in
\* Failed.
C16_OnlyForwardEdges ==
    \A i \in Moves : <<trail[i], trail[i + 1]>> \in ForwardEdges

\* C16 amended: every change of state is one of those edges or the restart
\* re-entry Failed to Starting, which only CmdStart takes; Running is left
\* for Stopped only by a clean exit, and nothing but an exit of the
\* process leaves Stopping.
C16_ForwardOrRestart ==
    \A i \in Moves :
        /\ <<trail[i], trail[i + 1]>> \in ForwardEdges \cup {<<"Failed", "Starting">>}
        /\ trail[i] = "Failed" => fed[i] = "CmdStart"
        /\ (trail[i] = "Running" /\ trail[i + 1] = "Stopped")
              => fed[i] = "ProcExitedClean"
        /\ trail[i] = "Stopping"
              => fed[i] \in {"ProcExitedClean", "ProcExitedUnclean"}

\* an entity that failed while starting has been started again
C16_Witness ==
    /\ Len(fed) = 3
    /\ trail = <<"Stopped", "Starting", "Failed", "Starting">>
    /\ fed[3] = "CmdStart"

Attempted(sv) == \E k \in 1..Len(emb_log) : emb_log[k] = <<"cancel", sv>>
Range(q) == {q[k] : k \in 1..Len(q)}

\* C17: when an enabled server fails to start in start_all_servers, a
\* shutdown has been attempted on every server started earlier in that
\* call by the time the call returns, the call returns an error, and the
\* caller is left with no server handle.
C17_StartFailureRollsBack ==
    emb_pc = "failed" =>
        /\ \A sv \in Range(emb_started) : Attempted(sv)
        /\ emb_result = "Err"
        /\ emb_servers = <<>>

\* the third server failed to start after two had started, and the call
\* has returned
C17_Witness ==
    /\ emb_pc = "failed" /\ emb_i = 3
    /\ emb_started = <<1, 2>>
    /\ emb_result = "Err"

\* stop(): every child in a process cell gets a shutdown task, every task
\* is awaited to its end whatever the others returned, a failed one puts
\* its member into errors, and the call returns an error exactly when
\* errors is not empty
FleetStopSteps ==
    /\ (pc = "idle" /\ pc' = "stop_wait") =>
          \A i \in Members : servers[i].process # 0 =>
              /\ servers[i].process \in Range(shutdown_tasks')
              /\ sd'[servers[i].process].pc = "called"
    /\ (pc = "stop_wait" /\ shutdown_tasks' # shutdown_tasks) =>
          /\ shutdown_tasks' = Tail(shutdown_tasks)
          /\ sd[Head(shutdown_tasks)].pc = "done"
          /\ errors' = errors \cup
                 (IF sd[Head(shutdown_tasks)].res = "Err"
                  THEN {children[Head(shutdown_tasks)].member} ELSE {})
    /\ (pc = "stop_wait" /\ pc' = "idle") =>
          /\ shutdown_tasks = <<>>
          /\ result' # "none"
          /\ result' = "Ok" <=> errors = {}

FailedShutdowns == {sv \in Embedded : <<"err", sv>> \in Range(emb_log)}

\* shutdown_all_servers: once it has returned, every started server's
\* shutdown was attempted, errors holds exactly the servers whose shutdown
\* failed, and the result is an error exactly when there is one
EmbShutdownAggregates ==
    emb_pc = "stopped" =>
        /\ \A sv \in Range(emb_started) : Attempted(sv)
        /\ Range(emb_errors) = FailedShutdowns
        /\ emb_result = "Err" <=> FailedShutdowns # {}
        /\ emb_result \in {"Ok", "Err"}

\* C18: a whole-fleet shutdown (KodegenHttpService::stop,
\* shutdown_all_servers) attempts the shutdown of every live member even
\* when another member's shutdown fails, and returns an error exactly
\* when at least one member's shutdown failed, with every failure in the
\* aggregate.
C18_ShutdownAttemptsAllAndAggregates ==
    [][FleetStopSteps]_vars /\ []EmbShutdownAggregates

\* the first server's shutdown failed, the next one was still shut down,
\* and shutdown_all_servers returned an error
C18_Witness ==
    /\ emb_pc = "stopped" /\ emb_result = "Err"
    /\ Len(emb_log) >= 4
    /\ emb_log[2][1] = "err" /\ emb_log[3][1] = "cancel" /\ emb_log[4][1] = "ok"
    /\ emb_errors = <<emb_log[2][2]>>

Reverse(q) == [k \in 1..Len(q) |-> q[Len(q) + 1 - k]]

\* the servers whose shutdown was called, in the order of the calls
RECURSIVE Cancelled(_)
Cancelled(log) ==
    IF log = <<>> THEN <<>>
    ELSE IF Head(log)[1] = "cancel"
         THEN <<Head(log)[2]>> \o Cancelled(Tail(log))
         ELSE Cancelled(Tail(log))

\* rollback_spawned begins at the last spawned index, goes down one
\* index per visit whatever the visit returned, and returns at zero
SpawnedRollbackLIFO ==
    /\ (pc \notin {"rollback", "rb_wait"} /\ pc' = "rollback") =>
          rb' = Len(spawned_indices')
    /\ (pc \in {"rollback", "rb_wait"}) =>
          /\ rb' \in {rb, rb - 1}
          /\ spawned_indices' = spawned_indices
          /\ (pc = "rollback" /\ pc' = "rb_wait") =>
                rbChild' = servers[spawned_indices[rb]].process
          /\ pc' = "idle" => rb' = 0

\* rollback_servers has called shutdown on the started servers, newest
\* first, each of them once
ServersRollbackLIFO ==
    emb_pc = "failed" => Cancelled(emb_log) = Reverse(emb_started)

\* C19: rollback after a mid-startup failure shuts the started members
\* down in reverse start order and visits every one of them even when an
\* earlier visit failed, on both paths: rollback_spawned and
\* rollback_servers.
C19_RollbackIsLIFO ==
    [][SpawnedRollbackLIFO]_vars /\ []ServersRollbackLIFO

\* stop(): while the tasks are awaited no process cell still holds a
\* child, and every task awaited has been spawned
StopIsConcurrent ==
    pc = "stop_wait" =>
        /\ \A i \in Members : servers[i].process = 0
        /\ \A c \in Range(shutdown_tasks) : sd[c].pc # "none"

\* shutdown_all_servers: while the completion of one server's shutdown
\* is awaited, no other server's shutdown is still to be called
ShutdownAllIsConcurrent ==
    (emb_pc = "shutdown" /\ emb_cur # 0) => emb_todo = <<>>

\* C20: whole-fleet shutdown is concurrent: the shutdown of every live
\* member is initiated before the completion of any other member's
\* shutdown is awaited (KodegenHttpService::stop, shutdown_all_servers).
C20_ShutdownInitiatedBeforeAwait ==
    StopIsConcurrent /\ ShutdownAllIsConcurrent

\* the monitor of child c, past its initial check, sees in this step that
\* the child has exited
SteadyExitSeen(c) ==
    /\ monitor[c] = "polling" /\ monitor'[c] = "finished"
    /\ children[c].st = "exited" /\ children'[c].st = "reaped"

\* C21: when the child of an entity exits during steady state the entity
\* is marked Failed (and the supervisor then schedules a restart for it).
\* For a fleet member: the step in which its monitor sees the exit leaves
\* the member in state Failed.
C21_SteadyExitMarksFailed ==
    [][\A c \in Children :
          SteadyExitSeen(c) => servers'[children[c].member].state = "Failed"]_vars

Pending(w) == pending_restarts[w].attempts > 0
Sends(w, cmd) == inbox'[w] = Append(inbox[w], cmd)
Scheduled(w) ==
    pending_restarts'[w].attempts > pending_restarts[w].attempts

\* C22: schedule-restart sends Stop to the entity in the same step that
\* writes its entry; a restart tick picks only entries whose earliest
\* restart instant has been reached; Start is sent after startup only to
\* an entity picked by the tick, whose entry is removed in the step that
\* sends the Start, and an entry is removed in no other step, so that each
\* entry produces exactly one Start.
C22_StopNowStartWhenDue ==
    [][\A w \in Workers :
          /\ Scheduled(w) => Sends(w, "Stop")
          /\ (mpc = "loop" /\ mpc' = "restarting") =>
                \A k \in 1..Len(cur') :
                    /\ pending_restarts[cur'[k]].attempts > 0
                    /\ pending_restarts[cur'[k]].wait = 0
                    /\ \A j \in 1..Len(cur') : cur'[j] = cur'[k] => j = k
          /\ (Sends(w, "Start") /\ mpc # "starting") =>
                /\ mpc = "restarting" /\ Head(cur) = w
                /\ Pending(w) /\ ~Pending(w)'
          /\ (Pending(w) /\ ~Pending(w)') =>
                /\ mpc = "restarting" /\ Head(cur) = w
                /\ Sends(w, "Start")]_vars

\* a Fatal of a worker was handled, its entry waited out its delay, and the
\* restart tick has sent the Start and removed the entry
C22_Witness ==
    /\ mpc = "loop"
    /\ \E w \in Workers :
          /\ ~Pending(w)
          /\ inbox[w] # <<>> /\ inbox[w][Len(inbox[w])] = "Start"
    /\ ManagerPut("restarted-service")
    /\ \E i \in 1..Len(bus) : bus[i] = Evt("Fatal", Manager, "")

\* this step takes the head of the bus: handle_event
Handles == mpc = "loop" /\ bus # <<>> /\ bus' = Tail(bus)

\* schedule-restart(w, d) took effect in this step: Stop sent, the entry
\* written with the delay d and one more attempt, nothing else touched
ScheduledWith(w, d) ==
    /\ inbox' = [inbox EXCEPT ![w] = Append(@, "Stop")]
    /\ pending_restarts' =
          [pending_restarts EXCEPT ![w] =
              [attempts |-> pending_restarts[w].attempts + 1, wait |-> d]]

NothingScheduled == UNCHANGED <<inbox, pending_restarts>>

StoppedOf(e) == e.type = "State" /\ e.kind = "stopped" /\ e.service # Manager
UnhealthyOf(e) == e.type = "Health" /\ e.kind = "unhealthy"

\* the steps of handle_event on the events that are not a Fatal, and the
\* steps in which the table gets a new or updated entry
NonFatalHandling ==
    /\ Handles =>
          LET e == Head(bus) IN
          CASE StoppedOf(e) -> ScheduledWith(e.service, 0)
            [] UnhealthyOf(e) -> ScheduledWith(e.service, HealthDelay)
            [] e.type = "Fatal" ->
                  /\ mpc' = "fatal" /\ cur' = <<e.service>>
                  /\ NothingScheduled
            [] OTHER -> NothingScheduled /\ mpc' = "loop"
    /\ \A w \in Workers :
          Scheduled(w) =>
              \/ Handles /\ Head(bus).service = w
                         /\ (StoppedOf(Head(bus)) \/ UnhealthyOf(Head(bus)))
              \/ mpc = "fatal" /\ cur = <<w>>
    /\ 0 < HealthDelay /\ HealthDelay < FatalDelay

\* the manager-level Fatal has been sent: handle_event(Fatal) goes on
FatalSent == mpc = "fatal" /\ mpc' # "fatal"

\* C23: the supervisor schedules a restart for exactly these bus events:
\* State stopped of an entity other than the manager (delay 0), Health
\* with healthy = false (delay 100ms) and Fatal (delay 1000ms); every
\* other event sends no Stop and leaves the pending-restart table alone.
\* As stated: every Fatal handled sends a Stop and writes an entry.
C23_EveryFatalSchedules ==
    [][/\ NonFatalHandling
       /\ FatalSent =>
            /\ ~NothingScheduled
            /\ cur[1] \in Workers => ScheduledWith(cur[1], FatalDelay)]_vars

\* C23, amended: as above, with Fatal scheduling a restart (delay 1000ms,
\* after the manager-level Fatal is sent) when it names a worker; a Fatal
\* that names the manager, like State stopped of the manager, sends no
\* Stop and leaves the table alone.
C23_RestartScheduledExactlyFor ==
    [][/\ NonFatalHandling
       /\ FatalSent =>
            IF cur[1] \in Workers THEN ScheduledWith(cur[1], FatalDelay)
                                  ELSE NothingScheduled]_vars

\* an unhealthy report of a worker has been handled while an entry for it
\* was pending: the entry carries the health delay and a second attempt,
\* and Stop is in the worker's inbox
C23_Witness ==
    \E w \in Workers :
        /\ pending_restarts[w] = [attempts |-> 2, wait |-> HealthDelay]
        /\ inbox[w] # <<>> /\ inbox[w][Len(inbox[w])] = "Stop"

StateOf(c) == servers[children[c].member].state

\* C24: the states one liveness monitor publishes are Failed alone,
\* Running alone, or Running followed by exactly one of Stopped and
\* Failed; after Stopped or Failed the monitor has ended and publishes
\* nothing more.  Step by step: before its initial check the monitor has
\* published nothing; the check publishes Running and the monitor goes on,
\* or Failed (or nothing) and it ends; a later poll publishes Stopped or
\* Failed (or nothing) and it ends; an ended monitor stays ended; and a
\* member's state is written by no other step than these and the spawn.
C24_MonitorPublishes ==
    [][/\ \A c \in Children :
            /\ monitor[c] = "finished" => monitor'[c] = "finished"
            /\ monitor[c] = "polling" => monitor'[c] \in {"polling", "finished"}
            /\ monitor[c] = "initial" => monitor'[c] # "none"
            /\ (monitor[c] = "initial" /\ monitor'[c] = "polling")
                  => StateOf(c)' = "Running"
            /\ (monitor[c] = "initial" /\ monitor'[c] = "finished")
                  => StateOf(c)' \in {"Failed", StateOf(c)}
            /\ (monitor[c] = "polling" /\ monitor'[c] = "finished")
                  => StateOf(c)' \in {"Stopped", "Failed", StateOf(c)}
       /\ \A i \in Members :
            servers'[i].state # servers[i].state =>
                \/ servers'[i].state = "Starting" /\ pc = "spawn"
                \/ \E c \in Children :
                      /\ children[c].member = i
                      /\ monitor[c] \in {"initial", "polling"}
                      /\ monitor'[c] # monitor[c]]_vars

\* a monitor has published Running and then, on a clean exit of its
\* child, Stopped, and has ended
C24_Witness ==
    \E c \in Children :
        /\ monitor[c] = "finished" /\ children[c].st = "reaped"
        /\ servers[children[c].member].process = c
        /\ StateOf(c) = "Stopped"
        /\ children[c].member \in answered

\* the monitor task of child c runs in this step (a poll that finds the
\* child running changes nothing and is no step)
MonitorActs(c) ==
    /\ monitor[c] \in {"initial", "polling"}
    /\ monitor'[c] # monitor[c]
    /\ pc' = pc /\ rb' = rb

\* child c is in the shared cell of its member
InCell(c) == servers[children[c].member].process = c

\* C25: under every interleaving of the liveness monitor with stop() and
\* rollback_spawned, the monitor never removes the child from the shared
\* cell, touches the child only while it holds the cell's lock (never
\* while the rollback holds it), and once the shutdown path has taken the
\* child out of the cell the monitor publishes no further state, leaves
\* the child alone and exits at its next poll.
C25_MonitorKeepsOffTakenChild ==
    [][\A c \in Children :
          MonitorActs(c) =>
              /\ \A i \in Members : servers'[i].process = servers[i].process
              /\ ~LockHeld(c)
              /\ (children'[c] # children[c] \/ StateOf(c)' # StateOf(c))
                    => InCell(c)
              /\ ~InCell(c) =>
                    /\ monitor'[c] = "finished"
                    /\ servers' = servers /\ children' = children]_vars

\* stop() has taken a child that has meanwhile exited; its monitor has
\* polled and ended while the shutdown task is still at work: the child
\* is not reaped and the member's state is still Running
C25_Witness ==
    \E c \in Children :
        /\ pc = "stop_wait"
        /\ sd[c].pc \in {"called", "graceful", "forced"}
        /\ monitor[c] = "finished"
        /\ children[c].st = "exited"
        /\ StateOf(c) = "Running"

\* check_signals has returned Some(sig): the loop goes to its shutdown arm
PollReturnsSignal == mpc = "loop" /\ mpc' = "stopping"

\* C26: the signal register is read and cleared in one step by the
\* supervisor's poll.  The register changes only when the handler stores a
\* signal or when a poll returns the stored signal and leaves 0 behind, so
\* a stored signal is returned at most once, and a signal stored before a
\* poll, also one stored before the loop was entered, is still there at
\* the next poll and returned by it unless a later signal overwrote it.
C26_SignalReadAndCleared ==
    [][/\ RECEIVED_SIGNAL' # RECEIVED_SIGNAL =>
            \/ RECEIVED_SIGNAL' \in {SIGINT, SIGTERM}
            \/ RECEIVED_SIGNAL' = 0 /\ PollReturnsSignal
       /\ PollReturnsSignal => (RECEIVED_SIGNAL # 0 /\ RECEIVED_SIGNAL' = 0)]_vars

\* a poll has returned a signal and cleared the register, and the handler
\* has stored another signal since
C26_Witness == mpc = "stopping" /\ RECEIVED_SIGNAL = SIGINT

\* the positions at which the supervisor's next step is a send on its own
\* bus: starting, running, the manager Fatal, LogRotate,
\* restarted-service, stopping, stopped
SendPositions ==
    {"ready", "startup", "fatal", "log_emit", "restarting", "stopping", "exited"}

\* C27: the supervisor never blocks forever in a send on its own event
\* bus: in no reachable state is the bus full while the supervisor, its
\* only consumer, is about to enqueue one of its own events.
C27_NeverBlockedOnOwnBus ==
    ~(mpc \in SendPositions /\ Len(bus) = BusBound)

\* the supervisor finishes handling a Fatal event that named `s`
FatalHandled(s) == mpc = "fatal" /\ cur = <<s>> /\ mpc' = "loop"

\* C28: handling a Fatal that came from a worker puts exactly one
\* manager-level Fatal on the bus, and handling that manager-level Fatal
\* puts nothing on the bus, so the Fatal events on the bus stay bounded by
\* the worker Fatal events.
C28_ManagerFatalNotReEmitted ==
    [][/\ \A w \in Workers :
              FatalHandled(w) => bus' = Append(bus, Evt("Fatal", Manager, ""))
       /\ FatalHandled(Manager) => bus' = bus]_vars

\* C29: once run has announced State{manager, running} and is in its
\* loop, the supervisor's own lifecycle is Running, so that a health tick
\* fans TickHealth out to the workers.
C29_LifecycleRunningInLoop == mpc = "loop" => is_running

\* two enabled members declare the same port
DuplicatePorts ==
    \E i, j \in Members :
        /\ i # j
        /\ servers[i].enabled /\ servers[j].enabled
        /\ servers[i].port = servers[j].port

\* C30: if two enabled members declare the same port, the pre-flight of
\* start() fails with the port error, and no child process is spawned.
C30_DuplicatePortFailsPreflight ==
    [][(pc = "preflight" /\ op = "start" /\ DuplicatePorts) =>
           (pc' = "idle" /\ result' = "ErrPort" /\ children' = children)]_vars
====
